---------------------------- MODULE Spec2Model ----------------------------
(***************************************************************************)
(* ML-KEM-768 reference oracle (ref/kyber_math.py, ref/kyber_acvp.py).     *)
(*                                                                         *)
(* Pure functions of the oracle are operators computed the way the Python  *)
(* computes them.  Python's bit operators are written arithmetically:     *)
(*   x & (2^k - 1)  is  x % 2^k,   x >> k  is  x \div 2^k,                  *)
(*   x << k  is  x * 2^k,   and  x | y  of disjoint bit fields is  x + y.   *)
(* A failed Python assert (AssertionError) or an IndexError is the value   *)
(* AssertionError for an integer result and Raised for a list or bytes     *)
(* result; every caller hands a failure of a callee on, as an exception    *)
(* propagates.                                                             *)
(***************************************************************************)
EXTENDS Integers, Sequences, FiniteSets, TLC

(***************************************************************************)
(* Module constants, kyber_math.py lines 7-13.                             *)
(***************************************************************************)
KYBER_Q == 3329
KYBER_N == 256
KYBER_N_INV == 3303
BARRETT_V == 20158
BARRETT_SHIFT == 26
HALF_Q == 1664
ZETA == 17
BARRETT_SAFE == 77517490

\* Bounds of the input sets.
MaxEdge == 2
MaxBarrettLow == 70000
MaxBarrettBlocks == 40
MaxPoly == 5
MaxBytes == 4
MaxSeed == 1

\* Passes of a while loop evaluated per burst (see sample_ntt_while).
SampleBurst == 32

\* The value standing for a raised AssertionError of an integer function.
AssertionError == -1
\* The value standing for an exception raised by a list or bytes function.
Raised == << -1 >>

RECURSIVE Pow2(_)
Pow2(n) == IF n = 0 THEN 1 ELSE 2 * Pow2(n - 1)

\* kyber_math.py mod_q
mod_q(a) == a % KYBER_Q

\* cond_sub_q that checks its range and then leaves a as it is.
cond_sub_q_keeps(a) ==
    IF ~(0 <= a /\ a < 2 * KYBER_Q) THEN AssertionError ELSE a

\* kyber_math.py cond_sub_q: assert 0 <= a < 2q, then subtract q when a >= q.
cond_sub_q(a) ==
    IF ~(0 <= a /\ a < 2 * KYBER_Q) THEN AssertionError
    ELSE IF a >= KYBER_Q THEN a - KYBER_Q ELSE a

\* barrett_quotient with the multiplier one too small.
barrett_quotient_low(a) ==
    LET limb == Pow2(BARRETT_SHIFT \div 2)
        ah == a \div limb
        al == a % limb
    IN  (ah * (BARRETT_V - 1) + ((al * (BARRETT_V - 1)) \div limb)) \div limb

\* (a * BARRETT_V) >> BARRETT_SHIFT for 0 <= a < 2^27.  Python integers are
\* unbounded; the product is formed here from the two 13-bit limbs of a so
\* that no intermediate value leaves 31 bits:
\*   floor((ah*2^13 + al) * V / 2^26) = floor((ah*V + floor(al*V / 2^13)) / 2^13).
barrett_quotient(a) ==
    LET limb == Pow2(BARRETT_SHIFT \div 2)
        ah == a \div limb
        al == a % limb
    IN  (ah * BARRETT_V + ((al * BARRETT_V) \div limb)) \div limb

\* The remainder r = a - t*q of barrett_reduce before its second assert.
barrett_remainder(a) == a - barrett_quotient(a) * KYBER_Q

\* kyber_math.py barrett_reduce
barrett_reduce(a) ==
    IF ~(0 <= a /\ a < BARRETT_SAFE) THEN AssertionError
    ELSE LET r == barrett_remainder(a)
         IN  IF ~(0 <= r /\ r < 2 * KYBER_Q) THEN AssertionError
             ELSE cond_sub_q(r)

\* cond_add_q that masks to 12 bits and never adds q.
cond_add_q_mask_only(a) ==
    IF ~(0 <= a /\ a < 8192) THEN AssertionError ELSE a % 4096

\* kyber_math.py cond_add_q: bit 12 set means borrow, add q and keep 12 bits.
cond_add_q(a) ==
    IF ~(0 <= a /\ a < 8192) THEN AssertionError
    ELSE IF (a \div 4096) % 2 = 1
         THEN ((a % 4096) + KYBER_Q) % 4096
         ELSE a % 4096

\* mod_add that stops at q - 1 where the sum reaches q.
mod_add_clamps(a, b) ==
    IF ~(0 <= a /\ a < KYBER_Q) \/ ~(0 <= b /\ b < KYBER_Q) THEN AssertionError
    ELSE IF a + b >= KYBER_Q THEN KYBER_Q - 1 ELSE a + b

\* kyber_math.py mod_add
mod_add(a, b) ==
    IF ~(0 <= a /\ a < KYBER_Q) \/ ~(0 <= b /\ b < KYBER_Q) THEN AssertionError
    ELSE cond_sub_q(a + b)

\* The 13-bit pattern of the unsigned subtraction, mod_sub lines 82-83.
borrow_pattern(a, b) == (IF a < b THEN 8192 + a - b ELSE a - b) % 8192

\* kyber_math.py mod_sub
mod_sub(a, b) ==
    IF ~(0 <= a /\ a < KYBER_Q) \/ ~(0 <= b /\ b < KYBER_Q) THEN AssertionError
    ELSE cond_add_q(borrow_pattern(a, b))

\* The widths compress_q and decompress_q accept.
ValidD == {1, 4, 5, 10, 11}

\* compress_q that truncates instead of rounding to nearest.
compress_q_floor(x, d) ==
    IF ~(0 <= x /\ x < KYBER_Q) THEN AssertionError
    ELSE IF d \notin ValidD THEN AssertionError
    ELSE ((x * Pow2(d)) \div KYBER_Q) % Pow2(d)

\* compress_q without the final reduction mod 2^d.
compress_q_no_wrap(x, d) ==
    IF ~(0 <= x /\ x < KYBER_Q) THEN AssertionError
    ELSE IF d \notin ValidD THEN AssertionError
    ELSE (x * Pow2(d) + HALF_Q) \div KYBER_Q

\* kyber_math.py compress_q
compress_q(x, d) ==
    IF ~(0 <= x /\ x < KYBER_Q) THEN AssertionError
    ELSE IF d \notin ValidD THEN AssertionError
    ELSE ((x * Pow2(d) + HALF_Q) \div KYBER_Q) % Pow2(d)


\* decompress_q that rounds down: (q * y) >> d.
decompress_q_floor(y, d) ==
    IF d < 0 THEN AssertionError
    ELSE IF ~(0 <= y /\ y < Pow2(d)) THEN AssertionError
    ELSE IF d \notin ValidD THEN AssertionError
    ELSE (KYBER_Q * y) \div Pow2(d)

\* kyber_math.py decompress_q.  1 << d raises ValueError for a negative d.
decompress_q(y, d) ==
    IF d < 0 THEN AssertionError
    ELSE IF ~(0 <= y /\ y < Pow2(d)) THEN AssertionError
    ELSE IF d \notin ValidD THEN AssertionError
    ELSE (KYBER_Q * y + Pow2(d - 1)) \div Pow2(d)


\* A lazily defined sequence made into an explicit tuple, each element
\* evaluated once (Python lists and bytes are explicit values).
Force(s) == s \o << >>

\* A list function's result when any element raised.
OrRaised(s) == IF \E n \in 1..Len(s) : s[n] = AssertionError THEN Raised ELSE s

\* kyber_math.py poly_add
poly_add(a, b) ==
    IF a = Raised \/ b = Raised THEN Raised
    ELSE IF Len(a) # KYBER_N \/ Len(b) # KYBER_N THEN Raised
    ELSE OrRaised(Force([n \in 1..KYBER_N |-> mod_add(a[n], b[n])]))

\* poly_sub that adds.
poly_sub_adds(a, b) ==
    IF a = Raised \/ b = Raised THEN Raised
    ELSE IF Len(a) # KYBER_N \/ Len(b) # KYBER_N THEN Raised
    ELSE OrRaised(Force([n \in 1..KYBER_N |-> mod_add(a[n], b[n])]))

\* kyber_math.py poly_sub
poly_sub(a, b) ==
    IF a = Raised \/ b = Raised THEN Raised
    ELSE IF Len(a) # KYBER_N \/ Len(b) # KYBER_N THEN Raised
    ELSE OrRaised(Force([n \in 1..KYBER_N |-> mod_sub(a[n], b[n])]))

\* kyber_math.py ntt_butterfly (the stand-alone Cooley-Tukey butterfly)
ntt_butterfly(even, odd, zeta) ==
    IF ~(0 <= even /\ even < KYBER_Q) \/ ~(0 <= odd /\ odd < KYBER_Q)
       \/ ~(0 <= zeta /\ zeta < KYBER_Q)
    THEN << AssertionError, AssertionError >>
    ELSE LET t == barrett_reduce(zeta * odd)
         IN  << mod_add(even, t), mod_sub(even, t) >>

\* kyber_math.py intt_butterfly (the stand-alone Gentleman-Sande butterfly)
intt_butterfly(even, odd, zeta) ==
    IF ~(0 <= even /\ even < KYBER_Q) \/ ~(0 <= odd /\ odd < KYBER_Q)
       \/ ~(0 <= zeta /\ zeta < KYBER_Q)
    THEN << AssertionError, AssertionError >>
    ELSE << mod_add(even, odd), barrett_reduce(zeta * mod_sub(odd, even)) >>

\* bitrev7 that keeps the low 7 bits in their order.
bitrev7_keeps_order(v) == v % 128

\* kyber_math.py bitrev7: result |= ((x >> i) & 1) << (6 - i) for i = 0..6.
RECURSIVE bitrev7_loop(_, _, _)
bitrev7_loop(v, i, result) ==
    IF i = 7 THEN result
    ELSE bitrev7_loop(v, i + 1, result + ((v \div Pow2(i)) % 2) * Pow2(6 - i))

bitrev7(v) == bitrev7_loop(v, 0, 0)

\* Python's three-argument pow(b, e, m), by repeated squaring.
RECURSIVE pow_mod(_, _, _)
pow_mod(b, e, m) ==
    IF e = 0 THEN 1 % m
    ELSE LET h == pow_mod(b, e \div 2, m)
             s == (h * h) % m
         IN  IF e % 2 = 1 THEN (s * b) % m ELSE s

\* kyber_math.py ZETAS, the list [pow(ZETA, bitrev7(k), KYBER_Q) for k in
\* range(128)]; ZETAS_list[k + 1] is the Python ZETAS[k].
ZETAS_list == Force([n \in 1..128 |-> pow_mod(ZETA, bitrev7(n - 1), KYBER_Q)])

ZETAS(k) == ZETAS_list[k + 1]

\* A twiddle index that stays at the layer's first one: one twiddle per
\* layer instead of one per block.
ntt_forward_zeta_per_layer(k, length, i) == k

\* The index k of the read ZETAS[k] (line 401) whose value the butterfly at
\* position i of ntt_forward uses: the read happens once per pass of the
\* `while start` loop, k advancing by one each time, so block number
\* i \div 2*length reads index k + block, k being the index on entry to the
\* layer.
ntt_forward_zeta(k, length, i) == k + (i \div (2 * length))

\* The same for ntt_inverse, line 427, where k goes down by one per block.
ntt_inverse_zeta(k, length, i) == k - (i \div (2 * length))

\* One layer (one pass of the outer while loop) of ntt_forward, lines
\* 399-407.  The butterflies of a layer act on the disjoint index pairs
\* (j, j + length), reading both before writing either, so the in-place
\* loops equal this simultaneous update of f.  Block number i \div 2*length
\* reads ZETAS[k + block], k being the twiddle index on entry to the layer;
\* zetas is the list the module-level name ZETAS refers to.
ntt_forward_layer(zetas, f, k, length) ==
    Force([n \in 1..KYBER_N |->
        LET i == n - 1
            zeta == zetas[ntt_forward_zeta(k, length, i) + 1]
        IN  IF i % (2 * length) < length
            THEN mod_add(f[n], barrett_reduce(zeta * f[n + length]))
            ELSE mod_sub(f[n - length], barrett_reduce(zeta * f[n]))])

\* The outer while loop of ntt_forward: length = 128, 64, ..., 2; every layer
\* advances k by its number of blocks, KYBER_N / (2 * length).
RECURSIVE ntt_forward_layers(_, _, _)
ntt_forward_layers(f, k, length) ==
    IF length < 2 THEN f
    ELSE ntt_forward_layers(ntt_forward_layer(ZETAS_list, f, k, length),
                            k + (KYBER_N \div (2 * length)), length \div 2)

\* kyber_math.py ntt_forward
ntt_forward(coeffs) ==
    IF coeffs = Raised \/ Len(coeffs) # KYBER_N THEN Raised
    ELSE OrRaised(ntt_forward_layers(
             Force([n \in 1..KYBER_N |-> coeffs[n] % KYBER_Q]), 1, 128))

\* One layer of ntt_inverse, lines 425-433: block number b reads
\* ZETAS[k - b], k being the twiddle index on entry to the layer.
ntt_inverse_layer(zetas, f, k, length) ==
    Force([n \in 1..KYBER_N |->
        LET i == n - 1
            zeta == zetas[ntt_inverse_zeta(k, length, i) + 1]
        IN  IF i % (2 * length) < length
            THEN mod_add(f[n], f[n + length])
            ELSE barrett_reduce(zeta * mod_sub(f[n], f[n - length]))])

\* The outer while loop of ntt_inverse: length = 2, 4, ..., 128.
RECURSIVE ntt_inverse_layers(_, _, _)
ntt_inverse_layers(f, k, length) ==
    IF length > 128 THEN f
    ELSE ntt_inverse_layers(ntt_inverse_layer(ZETAS_list, f, k, length),
                            k - (KYBER_N \div (2 * length)), length * 2)

\* ntt_inverse without its final scaling by 128^-1.
ntt_inverse_no_scale(f) == f

\* The final scaling loop of ntt_inverse, lines 437-438.
ntt_inverse_scale(f) ==
    Force([n \in 1..KYBER_N |-> barrett_reduce(f[n] * KYBER_N_INV)])

\* kyber_math.py ntt_inverse
ntt_inverse(coeffs) ==
    IF coeffs = Raised \/ Len(coeffs) # KYBER_N THEN Raised
    ELSE OrRaised(ntt_inverse_scale(ntt_inverse_layers(
             Force([n \in 1..KYBER_N |-> coeffs[n] % KYBER_Q]), 127, 2)))

\* basemul with the product a1 * b1 added as it is, not times zeta.
basemul_drops_zeta(a0, a1, b0, b1, zeta) ==
    IF \E v \in {a0, a1, b0, b1, zeta} : ~(0 <= v /\ v < KYBER_Q)
    THEN << AssertionError, AssertionError >>
    ELSE << barrett_reduce((a0 * b0) + barrett_reduce(a1 * b1)),
            barrett_reduce((a0 * b1) + (a1 * b0)) >>

\* kyber_math.py basemul
basemul(a0, a1, b0, b1, zeta) ==
    IF \E v \in {a0, a1, b0, b1, zeta} : ~(0 <= v /\ v < KYBER_Q)
    THEN << AssertionError, AssertionError >>
    ELSE LET t1 == barrett_reduce(a1 * b1)
             acc0 == (a0 * b0) + (t1 * zeta)
             acc1 == (a0 * b1) + (a1 * b0)
         IN  IF t1 = AssertionError THEN << AssertionError, AssertionError >>
             ELSE << barrett_reduce(acc0), barrett_reduce(acc1) >>

\* poly_basemul that uses ZETAS[64 + i] for both pairs of a group.
poly_basemul_same_zeta(a, b) ==
    IF a = Raised \/ b = Raised THEN Raised
    ELSE IF Len(a) # KYBER_N \/ Len(b) # KYBER_N THEN Raised
    ELSE OrRaised(Force([n \in 1..KYBER_N |->
        LET i == (n - 1) \div 4
            o == (n - 1) % 4
            g == 4 * i + 1
            zeta == ZETAS(64 + i)
        IN  IF o < 2
            THEN basemul(a[g], a[g + 1], b[g], b[g + 1], zeta)[o + 1]
            ELSE basemul(a[g + 2], a[g + 3], b[g + 2], b[g + 3], zeta)[o - 1]]))

\* kyber_math.py poly_basemul: group i = 0..63 holds coefficients 4i..4i+3;
\* the first pair uses ZETAS[64 + i], the second KYBER_Q - ZETAS[64 + i].
poly_basemul(a, b) ==
    IF a = Raised \/ b = Raised THEN Raised
    ELSE IF Len(a) # KYBER_N \/ Len(b) # KYBER_N THEN Raised
    ELSE OrRaised(Force([n \in 1..KYBER_N |->
        LET i == (n - 1) \div 4
            o == (n - 1) % 4
            g == 4 * i + 1
            zeta == ZETAS(64 + i)
            neg_zeta == KYBER_Q - zeta
        IN  IF o < 2
            THEN basemul(a[g], a[g + 1], b[g], b[g + 1], zeta)[o + 1]
            ELSE basemul(a[g + 2], a[g + 3], b[g + 2], b[g + 3], neg_zeta)[o - 1]]))

\* kyber_math.py schoolbook_mul: c[i + j] += a[i] * b[j], then
\* r[k] = (c[k] - c[k + 256]) % q.  schoolbook_sum(a, b, k, lo, hi) is the
\* part of c[k] - c[k + 256] that the rows lo..hi-1 of the double loop
\* contribute: row i adds a[i] * b[k - i] to c[k] when i <= k and
\* a[i] * b[k + 256 - i] to c[k + 256] when i > k.  Python's integers are
\* unbounded and c[k] reaches 256 * (q-1)^2, above 2^31, so each product is
\* taken modulo q as it is added, which the final % q cannot distinguish;
\* the rows are summed by halves to keep the nesting shallow.
RECURSIVE schoolbook_sum(_, _, _, _, _)
schoolbook_sum(a, b, k, lo, hi) ==
    IF hi = lo + 1
    THEN IF lo <= k
         THEN (a[lo + 1] * b[k - lo + 1]) % KYBER_Q
         ELSE 0 - ((a[lo + 1] * b[k + KYBER_N - lo + 1]) % KYBER_Q)
    ELSE schoolbook_sum(a, b, k, lo, (lo + hi) \div 2)
         + schoolbook_sum(a, b, k, (lo + hi) \div 2, hi)

schoolbook_mul(a, b) ==
    IF a = Raised \/ b = Raised THEN Raised
    ELSE IF Len(a) # KYBER_N \/ Len(b) # KYBER_N THEN Raised
    ELSE Force([n \in 1..KYBER_N |-> schoolbook_sum(a, b, n - 1, 0, KYBER_N) % KYBER_Q])

\* The coefficient of a nibble with the two bit counts added, not subtracted.
cbd_coeff_adds(nibble) ==
    ((nibble % 2) + ((nibble \div 2) % 2)
     + ((nibble \div 4) % 2) + ((nibble \div 8) % 2)) % KYBER_Q

\* kyber_math.py cbd_sample_eta2: byte k gives coefficient 2k from its low
\* nibble and coefficient 2k + 1 from its high nibble.
cbd_coeff(nibble) ==
    LET a == (nibble % 2) + ((nibble \div 2) % 2)
        b == ((nibble \div 4) % 2) + ((nibble \div 8) % 2)
    IN  (a - b) % KYBER_Q

\* cbd_sample_eta2 that takes the high nibble of a byte first.
cbd_sample_eta2_high_first(input_bytes) ==
    IF input_bytes = Raised \/ Len(input_bytes) # 128 THEN Raised
    ELSE Force([n \in 1..2 * Len(input_bytes) |->
             LET byte_val == input_bytes[((n - 1) \div 2) + 1]
                 shift == IF (n - 1) % 2 = 0 THEN 4 ELSE 0
             IN  cbd_coeff((byte_val \div Pow2(shift)) % 16)])

cbd_sample_eta2(input_bytes) ==
    IF input_bytes = Raised \/ Len(input_bytes) # 128 THEN Raised
    ELSE Force([n \in 1..2 * Len(input_bytes) |->
             LET byte_val == input_bytes[((n - 1) \div 2) + 1]
                 shift == IF (n - 1) % 2 = 0 THEN 0 ELSE 4
             IN  cbd_coeff((byte_val \div Pow2(shift)) % 16)])


(***************************************************************************)
(* kyber_acvp.py.  A bytes object is a sequence of integers 0..255.        *)
(***************************************************************************)
K == 3
ETA1 == 2
ETA2 == 2
DU == 10
DV == 4
EK_LEN == 384 * K + 32
DK_PKE_LEN == 384 * K
CT_LEN == 32 * DU * K + 32 * DV

Min(a, b) == IF a < b THEN a ELSE b

\* The Python slice s[lo:hi] for 0 <= lo, 0 <= hi: indices past the end are
\* clamped, never an error.
Slice(s, lo, hi) ==
    LET l == Min(lo, Len(s))
        h == Min(hi, Len(s))
    IN  IF l >= h THEN << >> ELSE SubSeq(s, l + 1, h)

\* The Python slice s[lo:].
SliceFrom(s, lo) == Slice(s, lo, Len(s))

\* The bit list of byte_encode with each coefficient's bits taken from the
\* most significant down.
encode_bit_msb_first(d, coeffs, n) ==
    (coeffs[(n \div d) + 1] \div Pow2(d - 1 - (n % d))) % 2

\* Bit n (from 0) of the bit list byte_encode builds: bit n mod d of
\* coefficient n div d, (c >> j) & 1.
encode_bit(d, coeffs, n) == (coeffs[(n \div d) + 1] \div Pow2(n % d)) % 2

\* kyber_acvp.py byte_encode: out[i >> 3] |= b << (i & 7) for every bit i.
byte_encode(d, coeffs) ==
    IF coeffs = Raised \/ Len(coeffs) # 256 THEN Raised
    ELSE Force([n \in 1..32 * d |->
             LET o == 8 * (n - 1)
             IN  encode_bit(d, coeffs, o)
                 + 2 * encode_bit(d, coeffs, o + 1)
                 + 4 * encode_bit(d, coeffs, o + 2)
                 + 8 * encode_bit(d, coeffs, o + 3)
                 + 16 * encode_bit(d, coeffs, o + 4)
                 + 32 * encode_bit(d, coeffs, o + 5)
                 + 64 * encode_bit(d, coeffs, o + 6)
                 + 128 * encode_bit(d, coeffs, o + 7)])

\* Bit n (from 0) of the bit list byte_decode builds: (byte_val >> j) & 1.
decode_bit(data, n) == (data[(n \div 8) + 1] \div Pow2(n % 8)) % 2

\* The inner loop of byte_decode: val |= bits[i * d + j] << j for j < d.
RECURSIVE decode_val(_, _, _, _)
decode_val(data, d, i, j) ==
    IF j >= d THEN 0
    ELSE decode_bit(data, i * d + j) * Pow2(j) + decode_val(data, d, i, j + 1)

\* byte_decode without the reduction mod q at d = 12.
byte_decode_no_reduce(d, data) ==
    IF data = Raised \/ Len(data) # 32 * d THEN Raised
    ELSE Force([n \in 1..256 |-> decode_val(data, d, n - 1, 0)])

\* kyber_acvp.py byte_decode
byte_decode(d, data) ==
    IF data = Raised \/ Len(data) # 32 * d THEN Raised
    ELSE Force([n \in 1..256 |->
             LET val == decode_val(data, d, n - 1, 0)
             IN  IF d = 12 THEN val % KYBER_Q ELSE val])

(***************************************************************************)
(* hashlib.  SHA3-256, SHA3-512, SHAKE-128 and SHAKE-256 are the Python    *)
(* standard library's, not code of the oracle.  They stand here as four    *)
(* fixed, distinct, deterministic functions from byte strings to byte      *)
(* strings: the input is absorbed into one integer (position-weighted, so  *)
(* that length, order and content all matter) and output byte p is a       *)
(* fixed mixing of that integer and p, so that a SHAKE digest of length n  *)
(* is a prefix of the digest of any greater length, as for the real XOFs.  *)
(* Nothing below relies on more than that.                                 *)
(***************************************************************************)
RECURSIVE absorb_sum(_, _, _)
absorb_sum(data, lo, hi) ==
    IF lo > hi THEN 0
    ELSE IF lo = hi
    THEN ((data[lo] + 1) * (1 + ((lo * 40503) % 4194301))) % 8388593
    ELSE LET mid == (lo + hi) \div 2
         IN  (absorb_sum(data, lo, mid) + absorb_sum(data, mid + 1, hi)) % 8388593

absorb(tag, data) ==
    (tag * 1000003 + Len(data) * 7919 + absorb_sum(data, 1, Len(data))) % 8388593

squeeze(s, p) ==
    LET u == (s + p * 7919) % 46337
        a == (u * u + (s \div 46337) + p) % 46337
        b == (a * a + 12345 + u) % 46337
    IN  (b \div 7) % 256

digest(tag, data, length) ==
    LET s == absorb(tag, data)
    IN  [p \in 1..length |-> squeeze(s, p)]

sha3_512(data) == Force(digest(1, data, 64))
sha3_256(data) == Force(digest(2, data, 32))
\* shake_128(data).digest(length); left lazy, its bytes are read one by one.
shake_128(data, length) == digest(3, data, length)
shake_256(data, length) == Force(digest(4, data, length))

\* kyber_acvp.py g_hash: (h[:32], h[32:])
g_hash(data) ==
    IF data = Raised THEN << Raised, Raised >>
    ELSE LET h == sha3_512(data) IN << Slice(h, 0, 32), SliceFrom(h, 32) >>

\* kyber_acvp.py h_hash
h_hash(data) == IF data = Raised THEN Raised ELSE sha3_256(data)

\* kyber_acvp.py j_hash(data, length)
j_hash_length(data, length) ==
    IF data = Raised THEN Raised ELSE shake_256(data, length)

\* j_hash put off: nothing is computed at the call.
j_hash_deferred(data) == << >>

\* kyber_acvp.py j_hash with its default length = 32
j_hash(data) == j_hash_length(data, 32)

\* prf that leaves the nonce byte at 0 whatever the position.
prf_nonce_zero(eta, seed, nonce) ==
    IF seed = Raised THEN Raised ELSE shake_256(seed \o << 0 >>, 64 * eta)

\* prf on the primitive of xof, SHAKE-128.
prf_shake_128(eta, seed, nonce) ==
    IF seed = Raised THEN Raised ELSE Force(shake_128(seed \o << nonce >>, 64 * eta))

\* kyber_acvp.py prf
prf(eta, seed, nonce) ==
    IF seed = Raised THEN Raised ELSE shake_256(seed \o << nonce >>, 64 * eta)

\* kyber_acvp.py xof
xof(seed, length) == shake_128(seed, length)


\* The length of the XOF buffer sample_ntt draws, line 118.
XOF_BUF_LEN == 4096

\* The loop body without the length test of line 128: a d2 that follows the
\* 256th accepted value is appended as well.
sample_ntt_step_keeps_d2(buf, coeffs, pos) ==
    IF pos + 2 >= XOF_BUF_LEN THEN << Raised, pos >>
    ELSE LET b0 == buf[pos + 1]
             b1 == buf[pos + 2]
             b2 == buf[pos + 3]
             d1 == b0 + 256 * (b1 % 16)
             d2 == (b1 \div 16) + 16 * b2
             c1 == IF d1 < KYBER_Q THEN Append(coeffs, d1) ELSE coeffs
             c2 == IF d2 < KYBER_Q THEN Append(c1, d2) ELSE c1
         IN  << c2, pos + 3 >>

\* One pass of the while loop of sample_ntt (lines 122-129) on the state
\* (coeffs, pos).  buf[pos + 2] past the end of buf raises IndexError.
sample_ntt_step(buf, coeffs, pos) ==
    IF pos + 2 >= XOF_BUF_LEN THEN << Raised, pos >>
    ELSE LET b0 == buf[pos + 1]
             b1 == buf[pos + 2]
             b2 == buf[pos + 3]
             d1 == b0 + 256 * (b1 % 16)
             d2 == (b1 \div 16) + 16 * b2
             c1 == IF d1 < KYBER_Q THEN Append(coeffs, d1) ELSE coeffs
             c2 == IF Len(c1) < 256 /\ d2 < KYBER_Q THEN Append(c1, d2) ELSE c1
         IN  << c2, pos + 3 >>

\* At most `fuel` passes of the while loop, stopping as the loop does.
RECURSIVE sample_ntt_burst(_, _, _, _)
sample_ntt_burst(buf, coeffs, pos, fuel) ==
    IF coeffs = Raised \/ Len(coeffs) >= 256 \/ fuel = 0 THEN << coeffs, pos >>
    ELSE LET nx == sample_ntt_step(buf, coeffs, pos)
         IN  sample_ntt_burst(buf, nx[1], nx[2], fuel - 1)

\* The while loop of sample_ntt, run in bursts of SampleBurst passes (the
\* burst length bounds the depth of evaluation and changes no result).
RECURSIVE sample_ntt_while(_, _, _)
sample_ntt_while(buf, coeffs, pos) ==
    IF coeffs = Raised THEN Raised
    ELSE IF Len(coeffs) >= 256 THEN coeffs
    ELSE LET nx == sample_ntt_burst(buf, coeffs, pos, SampleBurst)
         IN  sample_ntt_while(buf, nx[1], nx[2])

\* kyber_acvp.py sample_ntt
sample_ntt(rho, j, i) ==
    IF rho = Raised THEN Raised
    ELSE sample_ntt_while(xof(rho \o << j, i >>, XOF_BUF_LEN), << >>, 0)

\* expand_a that passes the row index first: A_hat[i][j] = sample_ntt(rho, i, j).
expand_a_transposed(rho) ==
    Force([i \in 1..K |-> Force([j \in 1..K |-> sample_ntt(rho, i - 1, j - 1)])])

\* kyber_acvp.py expand_a: A_hat[i][j] = sample_ntt(rho, j, i); here
\* expand_a(rho)[i + 1][j + 1] is the Python A_hat[i][j].
expand_a(rho) ==
    Force([i \in 1..K |-> Force([j \in 1..K |-> sample_ntt(rho, j - 1, i - 1)])])

\* Some polynomial of the list raised.
AnyRaised(polys) == \E n \in 1..Len(polys) : polys[n] = Raised

\* acc = poly_basemul(x[0], y[0]); then acc = poly_add(acc,
\* poly_basemul(x[j], y[j])) for j = 1, 2: the inner-product loops of
\* the K-PKE functions, on two lists of K polynomials.
inner_product(xs, ys) ==
    poly_add(poly_add(poly_basemul(xs[1], ys[1]), poly_basemul(xs[2], ys[2])),
             poly_basemul(xs[3], ys[3]))

\* The byte strings b0 + b1 + b2 built by the `+=` loops over range(K).
concat3(bs) == IF AnyRaised(bs) THEN Raised ELSE bs[1] \o bs[2] \o bs[3]

\* kyber_acvp.py k_pke_keygen with its local variables.
k_pke_keygen_frame(d) ==
    LET gh == g_hash(d \o << K >>)
        rho == gh[1]
        sigma == gh[2]
        A_hat == expand_a(rho)
        s == Force([i \in 1..K |-> cbd_sample_eta2(prf(ETA1, sigma, i - 1))])
        e == Force([i \in 1..K |-> cbd_sample_eta2(prf(ETA1, sigma, K + i - 1))])
        s_hat == Force([i \in 1..K |-> ntt_forward(s[i])])
        e_hat == Force([i \in 1..K |-> ntt_forward(e[i])])
        t_hat == Force([i \in 1..K |-> poly_add(inner_product(A_hat[i], s_hat), e_hat[i])])
        ek_t == concat3(Force([i \in 1..K |-> byte_encode(12, t_hat[i])]))
        dk_pke == concat3(Force([i \in 1..K |-> byte_encode(12, s_hat[i])]))
    IN  [rho |-> rho, sigma |-> sigma, A_hat |-> A_hat, s |-> s, e |-> e,
         s_hat |-> s_hat, t_hat |-> t_hat,
         ek_pke |-> IF ek_t = Raised THEN Raised ELSE ek_t \o rho,
         dk_pke |-> dk_pke]

\* Line 188 of k_pke_keygen: return ek_pke, dk_pke, from the locals fr.
k_pke_keygen_return(fr) ==
    IF fr.ek_pke = Raised \/ fr.dk_pke = Raised THEN Raised
    ELSE << fr.ek_pke, fr.dk_pke >>

\* kyber_acvp.py k_pke_keygen: (ek_pke, dk_pke), or Raised.
k_pke_keygen(d) == k_pke_keygen_return(k_pke_keygen_frame(d))

\* [compress_q(c, d) for c in poly], [decompress_q(c, d) for c in poly]:
\* the list comprehensions of k_pke_encrypt and k_pke_decrypt.
compress_poly(poly, d) ==
    IF poly = Raised THEN Raised
    ELSE OrRaised(Force([n \in 1..Len(poly) |-> compress_q(poly[n], d)]))

decompress_poly(poly, d) ==
    IF poly = Raised THEN Raised
    ELSE OrRaised(Force([n \in 1..Len(poly) |-> decompress_q(poly[n], d)]))

\* Row i of the matrix in place of its column i.
column_is_row(A_hat, i) == A_hat[i]

\* The entries A_hat[0][i], A_hat[1][i], A_hat[2][i] that the loop computing
\* u[i] in k_pke_encrypt reads: column i of A_hat (i from 1 here).
column(A_hat, i) == Force([j \in 1..K |-> A_hat[j][i]])

\* kyber_acvp.py k_pke_encrypt with its local variables.  u[i] sums
\* A_hat[j][i] * r_hat[j] over j: column i of A_hat.
k_pke_encrypt_frame(ek, m_bytes, r_seed) ==
    LET t_hat == Force([i \in 1..K |-> byte_decode(12, Slice(ek, 384 * (i - 1), 384 * i))])
        rho == SliceFrom(ek, 384 * K)
        A_hat == expand_a(rho)
        y == Force([i \in 1..K |-> cbd_sample_eta2(prf(ETA1, r_seed, i - 1))])
        e1 == Force([i \in 1..K |-> cbd_sample_eta2(prf(ETA2, r_seed, K + i - 1))])
        e2 == cbd_sample_eta2(prf(ETA2, r_seed, 2 * K))
        r_hat == Force([i \in 1..K |-> ntt_forward(y[i])])
        u == Force([i \in 1..K |->
                 poly_add(ntt_inverse(inner_product(column(A_hat, i), r_hat)), e1[i])])
        mu == decompress_poly(byte_decode(1, m_bytes), 1)
        v == poly_add(poly_add(ntt_inverse(inner_product(t_hat, r_hat)), e2), mu)
        c1 == concat3(Force([i \in 1..K |-> byte_encode(DU, compress_poly(u[i], DU))]))
        c2 == byte_encode(DV, compress_poly(v, DV))
    IN  [t_hat |-> t_hat, rho |-> rho, A_hat |-> A_hat, y |-> y, e1 |-> e1,
         e2 |-> e2, u |-> u, v |-> v, c1 |-> c1, c2 |-> c2]

\* Line 247 of k_pke_encrypt: return c1 + c2, from the locals fr.
k_pke_encrypt_return(fr) ==
    IF AnyRaised(fr.t_hat) \/ fr.c1 = Raised \/ fr.c2 = Raised THEN Raised
    ELSE fr.c1 \o fr.c2

\* kyber_acvp.py k_pke_encrypt: c1 + c2, or Raised.
k_pke_encrypt(ek, m_bytes, r_seed) ==
    IF ek = Raised \/ m_bytes = Raised \/ r_seed = Raised THEN Raised
    ELSE k_pke_encrypt_return(k_pke_encrypt_frame(ek, m_bytes, r_seed))

\* kyber_acvp.py k_pke_decrypt
k_pke_decrypt(dk_pke, c) ==
    IF dk_pke = Raised \/ c = Raised THEN Raised
    ELSE
    LET c1_len == 32 * DU * K
        c1 == Slice(c, 0, c1_len)
        c2 == SliceFrom(c, c1_len)
        u_comp == Force([i \in 1..K |-> byte_decode(DU, Slice(c1, 32 * DU * (i - 1), 32 * DU * i))])
        u == Force([i \in 1..K |-> decompress_poly(u_comp[i], DU)])
        v == decompress_poly(byte_decode(DV, c2), DV)
        s_hat == Force([i \in 1..K |-> byte_decode(12, Slice(dk_pke, 384 * (i - 1), 384 * i))])
        u_hat == Force([i \in 1..K |-> ntt_forward(u[i])])
        w == ntt_inverse(inner_product(s_hat, u_hat))
        diff == poly_sub(v, w)
    IN  IF AnyRaised(s_hat) THEN Raised
        ELSE byte_encode(1, compress_poly(diff, 1))

\* keygen_inner that leaves the noise e out of t_hat.
keygen_inner_no_noise(A_hat, s_noise, e_noise) ==
    LET s_hat == Force([i \in 1..3 |-> ntt_forward(s_noise[i])])
        t_hat == Force([i \in 1..3 |-> inner_product(A_hat[i], s_hat)])
    IN  << t_hat, s_hat >>

\* kyber_math.py keygen_inner: t_hat[i] sums A_hat[i][j] * s_hat[j] over j
\* (row i) and adds e_hat[i]; returns (t_hat, s_hat).
keygen_inner(A_hat, s_noise, e_noise) ==
    LET s_hat == Force([i \in 1..3 |-> ntt_forward(s_noise[i])])
        e_hat == Force([i \in 1..3 |-> ntt_forward(e_noise[i])])
        t_hat == Force([i \in 1..3 |->
                     poly_add(inner_product(A_hat[i], s_hat), e_hat[i])])
    IN  << t_hat, s_hat >>

\* kyber_math.py decrypt_inner: the 256 message bits, a list.
decrypt_inner(s_hat, u_compressed, v_compressed) ==
    LET u == Force([i \in 1..3 |-> decompress_poly(u_compressed[i], 10)])
        v == decompress_poly(v_compressed, 4)
        u_hat == Force([i \in 1..3 |-> ntt_forward(u[i])])
        w == ntt_inverse(inner_product(s_hat, u_hat))
        diff == poly_sub(v, w)
    IN  compress_poly(diff, 1)

\* kyber_math.py encaps_inner: u[i] sums A_hat[j][i] * r_hat[j] over j
\* (column i); returns (u, v), not compressed.
encaps_inner(A_hat, t_hat, r, e1, e2, m) ==
    LET r_hat == Force([i \in 1..3 |-> ntt_forward(r[i])])
        u == Force([i \in 1..3 |->
                 poly_add(ntt_inverse(
                     inner_product(Force([j \in 1..3 |-> A_hat[j][i]]), r_hat)),
                     e1[i])])
        v == poly_add(poly_add(ntt_inverse(inner_product(t_hat, r_hat)), e2), m)
    IN  << u, v >>

\* keygen_full that leaves H(ek) out of the decapsulation key.
keygen_full_dk_no_h(dk_pke, ek, z) == dk_pke \o ek \o z

\* Line 301 of keygen_full: dk = dk_pke + ek + h_hash(ek) + z.
keygen_full_dk(dk_pke, ek, z) == dk_pke \o ek \o h_hash(ek) \o z

\* kyber_acvp.py keygen_full: (ek, dk), or Raised.
keygen_full(d, z) ==
    LET kp == k_pke_keygen(d)
    IN  IF kp = Raised THEN Raised
        ELSE LET ek_pke == kp[1]
                 dk_pke == kp[2]
                 ek == ek_pke
             IN  << ek, keygen_full_dk(dk_pke, ek, z) >>

\* kyber_acvp.py encaps_full: (K_val, c), or Raised.
encaps_full(ek, m) ==
    LET h == h_hash(ek)
        gh == g_hash(m \o h)
        K_val == gh[1]
        r == gh[2]
        c == k_pke_encrypt(ek, m, r)
    IN  IF c = Raised THEN Raised ELSE << K_val, c >>

\* The local variables of decaps_full at line 333, before its comparison.
decaps_full_frame(dk, c) ==
    LET dk_pke == Slice(dk, 0, DK_PKE_LEN)
        ek == Slice(dk, DK_PKE_LEN, DK_PKE_LEN + EK_LEN)
        h == Slice(dk, DK_PKE_LEN + EK_LEN, DK_PKE_LEN + EK_LEN + 32)
        z == SliceFrom(dk, DK_PKE_LEN + EK_LEN + 32)
        m_prime == k_pke_decrypt(dk_pke, c)
        gh == IF m_prime = Raised THEN << Raised, Raised >> ELSE g_hash(m_prime \o h)
        K_bar == j_hash(z \o c)
        c_prime == k_pke_encrypt(ek, m_prime, gh[2])
    IN  [dk_pke |-> dk_pke, ek |-> ek, h |-> h, z |-> z, m_prime |-> m_prime,
         K_prime |-> gh[1], r_prime |-> gh[2], K_bar |-> K_bar,
         c_prime |-> c_prime]

\* decaps_full that returns K_prime whatever the comparison says.
decaps_select_always_accept(c, c_prime, K_prime, K_bar) == K_prime

\* Lines 333-336 of decaps_full: the choice between K_prime and K_bar.
decaps_select(c, c_prime, K_prime, K_bar) ==
    IF c = c_prime THEN K_prime ELSE K_bar

\* The value decaps_full returns from its frame, or Raised.
decaps_result(fr, c) ==
    IF fr.m_prime = Raised \/ fr.c_prime = Raised THEN Raised
    ELSE decaps_select(c, fr.c_prime, fr.K_prime, fr.K_bar)

\* kyber_acvp.py decaps_full
decaps_full(dk, c) == decaps_result(decaps_full_frame(dk, c), c)


(***************************************************************************)
(* Inputs.  Sets of bounded size, chosen to hold the boundary cases.        *)
(***************************************************************************)
\* Values within MaxEdge of a boundary c.
Edge(c) == (c - MaxEdge)..(c + MaxEdge)

\* Canonical and non-canonical operands of mod_add and mod_sub.
ScalarA == (0 - MaxEdge)..(KYBER_Q + MaxEdge) \cup Edge(4096) \cup Edge(8191)
ScalarB == Edge(0) \cup Edge(HALF_Q) \cup Edge(KYBER_Q - 1)

\* Inputs of barrett_reduce: around 0, around the products the transforms
\* form, multiples of q at the top of the safe range (where the quotient
\* estimate is furthest off), and both sides of the safe bound.
TopBlock == BARRETT_SAFE \div KYBER_Q
BarrettInputs ==
    Edge(0) \cup (0..MaxBarrettLow) \cup Edge(65535)
    \cup Edge((KYBER_Q - 1) * (KYBER_Q - 1))
    \cup Edge(2 * (KYBER_Q - 1) * (KYBER_Q - 1))
    \cup UNION {Edge((TopBlock - b) * KYBER_Q) : b \in 0..MaxBarrettBlocks}
    \cup Edge(BARRETT_SAFE)
    \cup Edge(BARRETT_SAFE + KYBER_Q)

\* Widths offered to compress_q and decompress_q, valid and not.
WidthInputs == 0..12

\* The 32-byte seed number i.
Seed(i) == Force([n \in 1..32 |-> (i * 37 + n * n * 11 + n) % 256])

\* Byte string number i of the given length: all 0x00, all 0xFF, all 0x03,
\* then pseudo-random strings.
TestBytes(i, length) ==
    IF i = 0 THEN [n \in 1..length |-> 0]
    ELSE IF i = 1 THEN [n \in 1..length |-> 255]
    ELSE IF i = 2 THEN [n \in 1..length |-> 3]
    ELSE Force(digest(6, << i >>, length))

\* 16-bit non-negative integers number i: an input ntt_forward accepts and
\* reduces on entry.
RawPoly(i) ==
    LET bs == TestBytes(i + 3, 2 * KYBER_N)
    IN  Force([n \in 1..KYBER_N |-> bs[2 * n - 1] * 256 + bs[2 * n]])

\* Canonical polynomial number i: all zero, all q - 1, the unit polynomial
\* [1, 0, ..., 0], then pseudo-random canonical polynomials.
TestPoly(i) ==
    IF i = 0 THEN [n \in 1..KYBER_N |-> 0]
    ELSE IF i = 1 THEN [n \in 1..KYBER_N |-> KYBER_Q - 1]
    ELSE IF i = 2 THEN [n \in 1..KYBER_N |-> IF n = 1 THEN 1 ELSE 0]
    ELSE LET raw == RawPoly(i) IN Force([n \in 1..KYBER_N |-> raw[n] % KYBER_Q])

\* The widths byte_encode and byte_decode are used at: 1, d_v = 4, 5,
\* d_u = 10, 11 and 12.
EncodeWidths == {1, DV, DV + 1, DU, DU + 1, 12}

\* Coefficient list number i within the range of width d: all zero, all at
\* the greatest value (2^d - 1, q - 1 at d = 12), then pseudo-random lists.
WidthPoly(i, d) ==
    LET top == IF d = 12 THEN KYBER_Q ELSE Pow2(d)
    IN  IF i = 0 THEN [n \in 1..KYBER_N |-> 0]
        ELSE IF i = 1 THEN [n \in 1..KYBER_N |-> top - 1]
        ELSE LET raw == RawPoly(i) IN Force([n \in 1..KYBER_N |-> raw[n] % top])

IsCanonical(v) == 0 <= v /\ v < KYBER_Q
IsCanonicalPoly(s) == Len(s) = KYBER_N /\ \A n \in 1..KYBER_N : IsCanonical(s[n])

(***************************************************************************)
(* State.  op, args, res: the oracle function last called on its own, its  *)
(* arguments and what it returned.  pc, kg, en, de: the position and the   *)
(* local variables of a keygen_full / encaps_full / decaps_full session.   *)
(* heap, thread: the shared lists and the calls of concurrent callers,      *)
(* empty where calls are made one at a time.                                *)
(***************************************************************************)
VARIABLES op, args, res, pc, kg, en, de, heap, thread

vars == << op, args, res, pc, kg, en, de, heap, thread >>
kemVars == << pc, kg, en, de >>
opVars == << op, args, res >>
parVars == << heap, thread >>

InitOps ==
    /\ op = "none" /\ args = << >> /\ res = << >>
    /\ pc = "idle" /\ kg = << >> /\ en = << >> /\ de = << >>
    /\ heap = << >> /\ thread = << >>

\* Call(f, a, r): function f was called with arguments a and returned r.
\* A session calls one function: every action is guarded by op = "none",
\* stated before its choice of arguments.
Call(f, a, r) ==
    /\ op' = f /\ args' = a /\ res' = r
    /\ UNCHANGED << kemVars, parVars >>

CallModAdd ==
    /\ op = "none"
    /\ \E a \in ScalarA, b \in ScalarB : Call("mod_add", << a, b >>, mod_add(a, b))

CallModSub ==
    /\ op = "none"
    /\ \E a \in ScalarA, b \in ScalarB : Call("mod_sub", << a, b >>, mod_sub(a, b))

CallBarrettReduce ==
    /\ op = "none"
    /\ \E a \in BarrettInputs : Call("barrett_reduce", << a >>, barrett_reduce(a))

CallCompress ==
    /\ op = "none"
    /\ \E v \in (0 - MaxEdge)..(KYBER_Q + MaxEdge), d \in WidthInputs :
           Call("compress_q", << v, d >>, compress_q(v, d))

CallDecompress ==
    /\ op = "none"
    /\ \E d \in WidthInputs : \E v \in (0 - MaxEdge)..(Pow2(d) + MaxEdge) :
           Call("decompress_q", << v, d >>, decompress_q(v, d))

\* decompress_q(compress_q(x, d), d), the round trip of test_round_trip.

CallCompressRoundTrip ==
    /\ op = "none"
    /\ \E v \in 0..(KYBER_Q - 1), d \in ValidD :
           Call("round_trip", << v, d >>, decompress_q(compress_q(v, d), d))

\* compress_q(decompress_q(y, d), d): what k_pke_decrypt's compression makes
\* of a value k_pke_encrypt decompressed, for every d-bit value y.
CallDecompressCompress ==
    /\ op = "none"
    /\ \E d \in ValidD : \E y \in 0..(Pow2(d) - 1) :
           Call("compress_decompressed", << y, d >>,
                << compress_q(decompress_q(y, d), d), decompress_q(y, d) >>)

CallBasemul ==
    /\ op = "none"
    /\ \E a0 \in ScalarB, a1 \in Edge(KYBER_Q - 1), b0 \in {0, 1, KYBER_Q - 1},
          b1 \in Edge(KYBER_Q - 1), i \in {0, 63} :
           Call("basemul", << a0, a1, b0, b1, KYBER_Q - ZETAS(64 + i) >>,
                basemul(a0, a1, b0, b1, KYBER_Q - ZETAS(64 + i)))

CallPolyAdd ==
    /\ op = "none"
    /\ \E i \in 0..MaxPoly, j \in 0..MaxPoly :
           Call("poly_add", << TestPoly(i), TestPoly(j) >>, poly_add(TestPoly(i), TestPoly(j)))

CallPolySub ==
    /\ op = "none"
    /\ \E i \in 0..MaxPoly, j \in 0..MaxPoly :
           Call("poly_sub", << TestPoly(i), TestPoly(j) >>, poly_sub(TestPoly(i), TestPoly(j)))

CallPolyBasemul ==
    /\ op = "none"
    /\ \E i \in 0..MaxPoly, j \in 0..MaxPoly :
           Call("poly_basemul", << TestPoly(i), TestPoly(j) >>,
                poly_basemul(TestPoly(i), TestPoly(j)))

CallNttForward ==
    /\ op = "none"
    /\ \/ \E i \in 0..MaxPoly : Call("ntt_forward", << TestPoly(i) >>, ntt_forward(TestPoly(i)))
       \/ \E i \in 0..MaxPoly : Call("ntt_forward", << RawPoly(i) >>, ntt_forward(RawPoly(i)))

CallNttInverse ==
    /\ op = "none"
    /\ \/ \E i \in 0..MaxPoly : Call("ntt_inverse", << TestPoly(i) >>, ntt_inverse(TestPoly(i)))
       \/ \E i \in 0..MaxPoly : Call("ntt_inverse", << RawPoly(i) >>, ntt_inverse(RawPoly(i)))

\* The product of a and b through the transform,
\* ntt_inverse(poly_basemul(ntt_forward(a), ntt_forward(b))), beside
\* schoolbook_mul(a, b), and poly_basemul(a, ntt_forward([1, 0, ..., 0])).
CallNttMultiply ==
    /\ op = "none"
    /\ \E i \in 0..MaxPoly, j \in 0..MaxPoly :
           \E a \in {TestPoly(i)}, b \in {TestPoly(j)} :
               Call("ntt_multiply", << a, b >>,
                    << ntt_inverse(poly_basemul(ntt_forward(a), ntt_forward(b))),
                       schoolbook_mul(a, b),
                       poly_basemul(a, ntt_forward(TestPoly(2))) >>)

\* verify_ntt.py test_linearity: ntt_forward of the coefficient-wise sum
\* (a[i] + b[i]) % q, beside the coefficient-wise sum mod q of ntt_forward(a)
\* and ntt_forward(b).
CallNttLinearity ==
    /\ op = "none"
    /\ \E i \in 0..MaxPoly, j \in 0..MaxPoly :
           \E a \in {TestPoly(i)}, b \in {TestPoly(j)} :
               \E ntt_a \in {ntt_forward(a)}, ntt_b \in {ntt_forward(b)} :
                   Call("ntt_linearity", << a, b >>,
                        << ntt_forward(Force([n \in 1..KYBER_N |-> (a[n] + b[n]) % KYBER_Q])),
                           Force([n \in 1..KYBER_N |-> (ntt_a[n] + ntt_b[n]) % KYBER_Q]),
                           ntt_a, ntt_b >>)

\* ntt_inverse(ntt_forward(p)) and ntt_forward(ntt_inverse(p)), the round
\* trips of verify_ntt.py test_round_trip.

CallNttRoundTrip ==
    /\ op = "none"
    /\ \E i \in 0..MaxPoly :
           Call("ntt_round_trip", << TestPoly(i) >>,
                << ntt_inverse(ntt_forward(TestPoly(i))),
                   ntt_forward(ntt_inverse(TestPoly(i))) >>)

CallCbdSample ==
    /\ op = "none"
    /\ \E i \in 0..MaxBytes, l \in Edge(128) :
           Call("cbd_sample_eta2", << TestBytes(i, l) >>, cbd_sample_eta2(TestBytes(i, l)))

CallSampleNtt ==
    /\ op = "none"
    /\ \E s \in 0..MaxSeed, j \in 0..(K - 1), i \in 0..(K - 1) :
           Call("sample_ntt", << Seed(s), j, i >>, sample_ntt(Seed(s), j, i))

\* sample_ntt from line 119 on, for an XOF output buf that hashlib could
\* return: the loop reads whatever SHAKE-128 produced, so it is run on byte
\* strings of every kind, those that reject every candidate included.
CallSampleNttWhile ==
    /\ op = "none"
    /\ \E i \in 0..MaxBytes :
           \E buf \in {TestBytes(i, XOF_BUF_LEN)} :
               Call("sample_ntt_while", << buf >>, sample_ntt_while(buf, << >>, 0))

CallByteDecode12 ==
    /\ op = "none"
    /\ \E i \in 0..MaxBytes, l \in Edge(384) :
           Call("byte_decode_12", << TestBytes(i, l) >>, byte_decode(12, TestBytes(i, l)))

\* A read of the table built when kyber_math is imported: ZETAS[k], with
\* bitrev7(k), bitrev7(bitrev7(k)) and len(ZETAS).
CallZetas ==
    /\ op = "none"
    /\ \E k \in 0..(Len(ZETAS_list) - 1) :
           Call("ZETAS", << k >>,
                << ZETAS(k), bitrev7(k), bitrev7(bitrev7(k)), Len(ZETAS_list) >>)

\* k_pke_keygen(d), then k_pke_encrypt(ek_pke, m, r) on the key it returned:
\* the local variables of the two calls.
CallPkeKeygenEncrypt ==
    /\ op = "none"
    /\ \E s \in 0..MaxSeed :
           \E kf \in {k_pke_keygen_frame(Seed(s))} :
               \E ef \in {k_pke_encrypt_frame(kf.ek_pke, Seed(s + 2), Seed(s + 4))} :
                   Call("k_pke_keygen_encrypt", << Seed(s), Seed(s + 2), Seed(s + 4) >>,
                        << kf, ef >>)

\* The polynomial-level functions of kyber_math.py on the matrix, noise and
\* message polynomials of a run of k_pke_keygen(d), k_pke_encrypt(ek_pke, m,
\* r) and k_pke_decrypt(dk_pke, c), as the test benches call them:
\* keygen_inner, then encaps_inner on its t_hat, then decrypt_inner on its
\* s_hat and the compressed (u, v); beside them the local variables and
\* results of the byte-level run.
CallInner ==
    /\ op = "none"
    /\ \E s \in 0..MaxSeed :
           \E kf \in {k_pke_keygen_frame(Seed(s))} :
               \E ef \in {k_pke_encrypt_frame(kf.ek_pke, Seed(s + 2), Seed(s + 4))} :
                   \E ki \in {keygen_inner(kf.A_hat, kf.s, kf.e)} :
                       \E ei \in {encaps_inner(kf.A_hat, ki[1], ef.y, ef.e1, ef.e2,
                                               decompress_poly(byte_decode(1, Seed(s + 2)), 1))} :
                           Call("inner", << Seed(s), Seed(s + 2), Seed(s + 4) >>,
                                [kf |-> kf, ef |-> ef, keygen_inner |-> ki,
                                 encaps_inner |-> ei,
                                 decrypt_inner |->
                                     decrypt_inner(ki[2],
                                         Force([i \in 1..3 |-> compress_poly(ei[1][i], 10)]),
                                         compress_poly(ei[2], 4)),
                                 k_pke_decrypt |->
                                     k_pke_decrypt(kf.dk_pke, k_pke_encrypt_return(ef))])

CallExpandA ==
    /\ op = "none"
    /\ \E s \in 0..MaxSeed : Call("expand_a", << Seed(s) >>, expand_a(Seed(s)))

\* prf(eta, seed, nonce), beside xof and j_hash on seed + bytes([nonce]) at
\* the length 64 * eta; eta = 2 is ML-KEM-768's, eta = 3 the other width of
\* FIPS 203.
CallPrf ==
    /\ op = "none"
    /\ \E eta \in {ETA1, ETA1 + 1}, s \in 0..MaxSeed, nonce \in 0..(2 * K) :
           Call("prf", << eta, Seed(s), nonce >>,
                << prf(eta, Seed(s), nonce),
                   Force(xof(Seed(s) \o << nonce >>, 64 * eta)),
                   j_hash_length(Seed(s) \o << nonce >>, 64 * eta) >>)

\* byte_encode(d, coeffs), then byte_decode(d, .) of what it returned.  The
\* coefficient lists are those within the range of width d and the canonical
\* polynomials, which exceed it at every d below 12.
CallByteEncode ==
    /\ op = "none"
    /\ \E d \in EncodeWidths, i \in 0..MaxPoly :
           \E coeffs \in {WidthPoly(i, d), TestPoly(i)} :
               \E data \in {byte_encode(d, coeffs)} :
                   Call("byte_encode", << d, coeffs >>, << data, byte_decode(d, data) >>)

NextOps ==
    \/ CallModAdd \/ CallModSub \/ CallBarrettReduce
    \/ CallCompress \/ CallDecompress \/ CallCompressRoundTrip
    \/ CallBasemul \/ CallPolyAdd \/ CallPolySub \/ CallPolyBasemul
    \/ CallNttForward \/ CallNttInverse \/ CallNttRoundTrip
    \/ CallCbdSample \/ CallSampleNtt \/ CallByteDecode12
    \/ CallByteEncode \/ CallNttMultiply \/ CallNttLinearity \/ CallZetas
    \/ CallPkeKeygenEncrypt \/ CallExpandA \/ CallPrf
    \/ CallSampleNttWhile \/ CallDecompressCompress \/ CallInner

SpecOps == InitOps /\ [][NextOps]_vars


(***************************************************************************)
(* The KEM session: keygen_full, then encaps_full, then decaps_full, each   *)
(* advancing one source line at a time.  pc names the line about to run.    *)
(***************************************************************************)
MaxKey == 1
MaxMsg == 1

\* The seed pair (d, z) of key i and the message j.
KeySeedD(i) == Seed(2 * i)
KeySeedZ(i) == Seed(2 * i + 1)
Message(j) == Seed(100 + j)

\* A buffer one byte too short, one byte too long.
Shorter(b) == SubSeq(b, 1, Len(b) - 1)
Longer(b) == b \o << 0 >>

\* b with the low bit of byte number at (from 1) flipped.
Tamper(b, at) ==
    [b EXCEPT ![at] = IF b[at] % 2 = 0 THEN b[at] + 1 ELSE b[at] - 1]

\* Arguments of keygen_full: the seed pairs, and pairs with one malformed seed.
KeygenInputs ==
    { << KeySeedD(i), KeySeedZ(i) >> : i \in 0..MaxKey }
    \cup { << Shorter(KeySeedD(0)), KeySeedZ(0) >>,
           << Longer(KeySeedD(0)), KeySeedZ(0) >>,
           << KeySeedD(0), Shorter(KeySeedZ(0)) >>,
           << KeySeedD(0), Longer(KeySeedZ(0)) >> }

\* Arguments of encaps_full for the key ek: the messages, and pairs with
\* one malformed buffer.
EncapsInputs(ek) ==
    { << ek, Message(j) >> : j \in 0..MaxMsg }
    \cup { << Shorter(ek), Message(0) >>,
           << Longer(ek), Message(0) >>,
           << SubSeq(ek, 1, 384 * K - 1), Message(0) >>,
           << ek, Shorter(Message(0)) >>,
           << ek, Longer(Message(0)) >> }

\* Arguments of decaps_full for the key dk and the ciphertext c: the
\* genuine pair, tampered and unrelated buffers of the right length, and
\* pairs with one malformed buffer.
DecapsInputs(dk, c) ==
    { << dk, c >> }
    \cup { << dk, Tamper(c, at) >> : at \in {1, 32 * DU * K + 1, CT_LEN} }
    \cup { << dk, TestBytes(0, CT_LEN) >>,
           << TestBytes(1, DK_PKE_LEN + EK_LEN + 64), c >> }
    \cup { << Shorter(dk), c >>, << Longer(dk), c >>,
           << dk, Shorter(c) >>, << dk, Longer(c) >> }

Unset == << >>

Init == InitOps

\* keygen_full(d, z) is called.
KeygenFullCall ==
    /\ pc = "idle"
    /\ \E a \in KeygenInputs :
          kg' = [d |-> a[1], z |-> a[2], ek_pke |-> Unset, dk_pke |-> Unset,
                 ek |-> Unset, dk |-> Unset]
    /\ pc' = "keygen_full_299"
    /\ UNCHANGED << en, de, opVars, parVars >>

\* Line 299: ek_pke, dk_pke = k_pke_keygen(d).
KeygenFullPke ==
    /\ pc = "keygen_full_299"
    /\ \E kp \in {k_pke_keygen(kg.d)} :
           IF kp = Raised
           THEN pc' = "keygen_full_raised" /\ UNCHANGED kg
           ELSE /\ kg' = [kg EXCEPT !.ek_pke = kp[1], !.dk_pke = kp[2]]
                /\ pc' = "keygen_full_300"
    /\ UNCHANGED << en, de, opVars, parVars >>

\* Lines 300-302: ek = ek_pke; dk = dk_pke + ek + h_hash(ek) + z; return.
KeygenFullReturn ==
    /\ pc = "keygen_full_300"
    /\ kg' = [kg EXCEPT !.ek = kg.ek_pke,
                        !.dk = keygen_full_dk(kg.dk_pke, kg.ek_pke, kg.z)]
    /\ pc' = "keygen_full_done"
    /\ UNCHANGED << en, de, opVars, parVars >>

\* encaps_full(ek, m) is called, after a keygen_full on 32-byte seeds.
EncapsFullCall ==
    /\ pc = "keygen_full_done"
    /\ Len(kg.d) = 32 /\ Len(kg.z) = 32
    /\ \E a \in EncapsInputs(kg.ek) :
          en' = [ek |-> a[1], m |-> a[2], h |-> Unset, K_val |-> Unset,
                 r |-> Unset, c |-> Unset]
    /\ pc' = "encaps_full_311"
    /\ UNCHANGED << kg, de, opVars, parVars >>

\* Line 311: h = h_hash(ek).
EncapsFullH ==
    /\ pc = "encaps_full_311"
    /\ en' = [en EXCEPT !.h = h_hash(en.ek)]
    /\ pc' = "encaps_full_312"
    /\ UNCHANGED << kg, de, opVars, parVars >>

\* Line 312: K_val, r = g_hash(m + h).
EncapsFullG ==
    /\ pc = "encaps_full_312"
    /\ \E gh \in {g_hash(en.m \o en.h)} :
           en' = [en EXCEPT !.K_val = gh[1], !.r = gh[2]]
    /\ pc' = "encaps_full_313"
    /\ UNCHANGED << kg, de, opVars, parVars >>

\* Lines 313-314: c = k_pke_encrypt(ek, m, r); return K_val, c.
EncapsFullEncrypt ==
    /\ pc = "encaps_full_313"
    /\ \E c \in {k_pke_encrypt(en.ek, en.m, en.r)} :
           IF c = Raised
           THEN pc' = "encaps_full_raised" /\ UNCHANGED en
           ELSE en' = [en EXCEPT !.c = c] /\ pc' = "encaps_full_done"
    /\ UNCHANGED << kg, de, opVars, parVars >>

\* decaps_full(dk, c) is called, after an encaps_full of a 32-byte message
\* under the generated key.  Lines 323-326 slice dk.
DecapsFullCall ==
    /\ pc = "encaps_full_done"
    /\ en.ek = kg.ek /\ Len(en.m) = 32
    /\ \E a \in DecapsInputs(kg.dk, en.c) :
          de' = [dk |-> a[1], c |-> a[2],
                 dk_pke |-> Slice(a[1], 0, DK_PKE_LEN),
                 ek |-> Slice(a[1], DK_PKE_LEN, DK_PKE_LEN + EK_LEN),
                 h |-> Slice(a[1], DK_PKE_LEN + EK_LEN, DK_PKE_LEN + EK_LEN + 32),
                 z |-> SliceFrom(a[1], DK_PKE_LEN + EK_LEN + 32),
                 m_prime |-> Unset, K_prime |-> Unset, r_prime |-> Unset,
                 K_bar |-> Unset, c_prime |-> Unset, result |-> Unset]
    /\ pc' = "decaps_full_328"
    /\ UNCHANGED << kg, en, opVars, parVars >>

\* Line 328: m_prime = k_pke_decrypt(dk_pke, c).
DecapsFullDecrypt ==
    /\ pc = "decaps_full_328"
    /\ \E m_prime \in {k_pke_decrypt(de.dk_pke, de.c)} :
           IF m_prime = Raised
           THEN pc' = "decaps_full_raised" /\ UNCHANGED de
           ELSE de' = [de EXCEPT !.m_prime = m_prime] /\ pc' = "decaps_full_329"
    /\ UNCHANGED << kg, en, opVars, parVars >>

\* Line 329: K_prime, r_prime = g_hash(m_prime + h).
DecapsFullG ==
    /\ pc = "decaps_full_329"
    /\ \E gh \in {g_hash(de.m_prime \o de.h)} :
           de' = [de EXCEPT !.K_prime = gh[1], !.r_prime = gh[2]]
    /\ pc' = "decaps_full_330"
    /\ UNCHANGED << kg, en, opVars, parVars >>

\* Line 330: K_bar = j_hash(z + c).
DecapsFullJ ==
    /\ pc = "decaps_full_330"
    /\ de' = [de EXCEPT !.K_bar = j_hash(de.z \o de.c)]
    /\ pc' = "decaps_full_331"
    /\ UNCHANGED << kg, en, opVars, parVars >>

\* Line 331: c_prime = k_pke_encrypt(ek, m_prime, r_prime).
DecapsFullEncrypt ==
    /\ pc = "decaps_full_331"
    /\ \E c_prime \in {k_pke_encrypt(de.ek, de.m_prime, de.r_prime)} :
           IF c_prime = Raised
           THEN pc' = "decaps_full_raised" /\ UNCHANGED de
           ELSE de' = [de EXCEPT !.c_prime = c_prime] /\ pc' = "decaps_full_333"
    /\ UNCHANGED << kg, en, opVars, parVars >>

\* Lines 333-336: return K_prime if c == c_prime, else K_bar.
DecapsFullReturn ==
    /\ pc = "decaps_full_333"
    /\ de' = [de EXCEPT !.result = decaps_select(de.c, de.c_prime, de.K_prime, de.K_bar)]
    /\ pc' = "decaps_full_done"
    /\ UNCHANGED << kg, en, opVars, parVars >>

Next ==
    \/ KeygenFullCall \/ KeygenFullPke \/ KeygenFullReturn
    \/ EncapsFullCall \/ EncapsFullH \/ EncapsFullG \/ EncapsFullEncrypt
    \/ DecapsFullCall \/ DecapsFullDecrypt \/ DecapsFullG \/ DecapsFullJ
    \/ DecapsFullEncrypt \/ DecapsFullReturn

Spec == Init /\ [][Next]_vars

(***************************************************************************)
(* Concurrent callers.  heap holds, by name, the list objects that more     *)
(* than one call can reach: "ZETAS", the list the module-level name ZETAS   *)
(* refers to; "a" and "b", two lists the callers pass as arguments; "f1"    *)
(* and "f2", the lists the calls of threads 1 and 2 build.  thread holds    *)
(* per thread the call it runs and that call's local variables; a local     *)
(* variable that refers to a list holds the list's name, as a Python        *)
(* variable holds a reference.  Each thread makes one call of ntt_forward   *)
(* or ntt_inverse, the two functions that write list elements in place and  *)
(* read ZETAS, and advances by one pass of the function's outer loop; every *)
(* other function of the oracle appends to lists it has created itself and  *)
(* takes immutable bytes.                                                   *)
(***************************************************************************)
Threads == {1, 2}

\* The lists of the callers: a canonical polynomial and a list of 16-bit
\* values, which the entry reduction changes.
SharedLists == [a |-> TestPoly(3), b |-> RawPoly(0)]

\* f = coeffs: the call would work on the caller's list itself.
same_list(t, coeffs) == coeffs

\* Lines 394 and 420, f = [c % KYBER_Q for c in coeffs]: the comprehension
\* builds a new list, "f1" in thread 1 and "f2" in thread 2.
new_list(t, coeffs) == IF t = 1 THEN "f1" ELSE "f2"

InitPar ==
    /\ op = "none" /\ args = << >> /\ res = << >>
    /\ pc = "idle" /\ kg = << >> /\ en = << >> /\ de = << >>
    /\ heap = [ZETAS |-> ZETAS_list, a |-> SharedLists.a, b |-> SharedLists.b,
               f1 |-> << >>, f2 |-> << >>]
    /\ thread = [t \in Threads |->
                    [pc |-> "idle", fn |-> "", coeffs |-> "", f |-> "",
                     k |-> 0, length |-> 0, ret |-> "",
                     reads |-> << >>, lengths |-> << >>, scaled |-> 0]]

\* Thread t calls ntt_forward or ntt_inverse on the list "a" or "b".
ParCall(t) ==
    /\ thread[t].pc = "idle"
    /\ \E fn \in {"ntt_forward", "ntt_inverse"}, coeffs \in {"a", "b"} :
           thread' = [thread EXCEPT ![t].pc = "entry", ![t].fn = fn,
                                    ![t].coeffs = coeffs]
    /\ UNCHANGED << heap, opVars, kemVars >>

\* Lines 394-397 and 420-423: f = [c % KYBER_Q for c in coeffs]; k = 1,
\* length = 128 in ntt_forward, k = 127, length = 2 in ntt_inverse.
ParEntry(t) ==
    /\ thread[t].pc = "entry"
    /\ \E f \in {new_list(t, thread[t].coeffs)} :
           /\ heap' = [heap EXCEPT ![f] =
                           Force([n \in 1..KYBER_N |->
                                     heap[thread[t].coeffs][n] % KYBER_Q])]
           /\ thread' = [thread EXCEPT
                             ![t].pc = "layer", ![t].f = f,
                             ![t].k = IF thread[t].fn = "ntt_forward" THEN 1 ELSE 127,
                             ![t].length = IF thread[t].fn = "ntt_forward" THEN 128 ELSE 2]
    /\ UNCHANGED << opVars, kemVars >>

\* One pass of the outer while loop, lines 398-408 and 424-434: the
\* butterflies of one layer, written into f, with ZETAS read from the heap.
\* The frame records what the pass did: lengths gets the block length, reads
\* the indices of the reads ZETAS[k] of lines 401 and 427, one per pass of
\* the `while start` loop, in the order of the blocks.
ParLayer(t) ==
    /\ thread[t].pc = "layer"
    /\ \E fr \in {thread[t]} :
           IF fr.fn = "ntt_forward"
           THEN /\ heap' = [heap EXCEPT ![fr.f] =
                               ntt_forward_layer(heap["ZETAS"], heap[fr.f], fr.k, fr.length)]
                /\ thread' = [thread EXCEPT
                                  ![t].k = fr.k + (KYBER_N \div (2 * fr.length)),
                                  ![t].length = fr.length \div 2,
                                  ![t].lengths = Append(fr.lengths, fr.length),
                                  ![t].reads = fr.reads \o
                                      [blk \in 1..(KYBER_N \div (2 * fr.length)) |->
                                          ntt_forward_zeta(fr.k, fr.length,
                                                           (blk - 1) * 2 * fr.length)],
                                  ![t].pc = IF fr.length \div 2 >= 2 THEN "layer" ELSE "return"]
           ELSE /\ heap' = [heap EXCEPT ![fr.f] =
                               ntt_inverse_layer(heap["ZETAS"], heap[fr.f], fr.k, fr.length)]
                /\ thread' = [thread EXCEPT
                                  ![t].k = fr.k - (KYBER_N \div (2 * fr.length)),
                                  ![t].length = fr.length * 2,
                                  ![t].lengths = Append(fr.lengths, fr.length),
                                  ![t].reads = fr.reads \o
                                      [blk \in 1..(KYBER_N \div (2 * fr.length)) |->
                                          ntt_inverse_zeta(fr.k, fr.length,
                                                           (blk - 1) * 2 * fr.length)],
                                  ![t].pc = IF fr.length * 2 <= 128 THEN "layer" ELSE "scale"]
    /\ UNCHANGED << opVars, kemVars >>

\* Lines 437-438 of ntt_inverse: f[i] = barrett_reduce(f[i] * KYBER_N_INV);
\* scaled counts the runs of this loop.
ParScale(t) ==
    /\ thread[t].pc = "scale"
    /\ heap' = [heap EXCEPT ![thread[t].f] = ntt_inverse_scale(heap[thread[t].f])]
    /\ thread' = [thread EXCEPT ![t].pc = "return",
                                ![t].scaled = thread[t].scaled + 1]
    /\ UNCHANGED << opVars, kemVars >>

\* Lines 410 and 440: return f.
ParReturn(t) ==
    /\ thread[t].pc = "return"
    /\ thread' = [thread EXCEPT ![t].pc = "done", ![t].ret = thread[t].f]
    /\ UNCHANGED << heap, opVars, kemVars >>

NextPar ==
    \E t \in Threads :
        ParCall(t) \/ ParEntry(t) \/ ParLayer(t) \/ ParScale(t) \/ ParReturn(t)

SpecPar == InitPar /\ [][NextPar]_vars

(***************************************************************************)
(* Claims about the KEM session (Spec).                                     *)
(***************************************************************************)
\* The positions of pc inside and after each function.
InKeygen == {"keygen_full_299", "keygen_full_300", "keygen_full_done", "keygen_full_raised"}
InEncaps == {"encaps_full_311", "encaps_full_312", "encaps_full_313",
             "encaps_full_done", "encaps_full_raised"}
InDecaps == {"decaps_full_328", "decaps_full_329", "decaps_full_330",
             "decaps_full_331", "decaps_full_333", "decaps_full_done",
             "decaps_full_raised"}

\* C1: for every 32-byte d, z and m, if (ek, dk) = keygen_full(d, z) and
\* (K, c) = encaps_full(ek, m), then decaps_full(dk, c) returns K.
C1_DecapsRecoversKey ==
    /\ (pc \in InKeygen /\ Len(kg.d) = 32 /\ Len(kg.z) = 32)
           => pc # "keygen_full_raised"
    /\ (pc \in InEncaps /\ Len(kg.d) = 32 /\ Len(kg.z) = 32
        /\ en.ek = kg.ek /\ Len(en.m) = 32)
           => pc # "encaps_full_raised"
    /\ (pc \in InDecaps /\ Len(kg.d) = 32 /\ Len(kg.z) = 32
        /\ en.ek = kg.ek /\ Len(en.m) = 32
        /\ de.dk = kg.dk /\ de.c = en.c)
           => /\ pc # "decaps_full_raised"
              /\ pc = "decaps_full_done" => de.result = en.K_val

\* decaps_full returned the encapsulated key of the last key pair and message.
C1_Witness ==
    /\ pc = "decaps_full_done"
    /\ kg.d = KeySeedD(MaxKey) /\ kg.z = KeySeedZ(MaxKey)
    /\ en.ek = kg.ek /\ en.m = Message(MaxMsg)
    /\ de.dk = kg.dk /\ de.c = en.c
    /\ Len(en.K_val) = 32
    /\ de.result = en.K_val

\* C2: for every 2400-byte dk and 1088-byte c, decaps_full(dk, c) never
\* signals a decryption failure: it returns K' (the first 32 bytes of
\* G(m' || h)) exactly when the re-encryption c' = k_pke_encrypt(ek, m', r')
\* equals c, and returns K-bar = J(z || c) in every other case.
C2_ImplicitRejection ==
    (pc \in InDecaps /\ Len(de.dk) = 2400 /\ Len(de.c) = 1088) =>
        /\ pc # "decaps_full_raised"
        /\ pc = "decaps_full_done" =>
              /\ de.K_prime = SubSeq(sha3_512(de.m_prime \o de.h), 1, 32)
              /\ de.K_bar = shake_256(de.z \o de.c, 32)
              /\ de.c_prime = de.c => de.result = de.K_prime
              /\ de.c_prime # de.c => de.result = de.K_bar
              /\ de.result = de.K_prime <=> de.c_prime = de.c

\* decaps_full rejected a tampered ciphertext under a genuine key: it
\* returned K-bar, which is not K'.
C2_Witness ==
    /\ pc = "decaps_full_done"
    /\ de.dk = kg.dk /\ Len(de.dk) = 2400
    /\ de.c # en.c /\ Len(de.c) = 1088
    /\ de.c_prime # de.c
    /\ de.result = de.K_bar /\ de.result # de.K_prime

\* C3: keygen_full, encaps_full and decaps_full each fail with an error and
\* return no output whenever any input byte buffer has a length other than
\* its fixed size (d, z and m: 32 bytes; ek: 1184 bytes; dk: 2400 bytes;
\* c: 1088 bytes).
C3_MalformedLengthsFail ==
    /\ pc = "keygen_full_done" => (Len(kg.d) = 32 /\ Len(kg.z) = 32)
    /\ pc = "encaps_full_done" => (Len(en.ek) = 1184 /\ Len(en.m) = 32)
    /\ pc = "decaps_full_done" => (Len(de.dk) = 2400 /\ Len(de.c) = 1088)

\* C4: for 32-byte d, z and m, keygen_full returns an ek of exactly 1184
\* bytes and a dk of exactly 2400 bytes, encaps_full returns a 32-byte K and
\* a 1088-byte c, and decaps_full returns exactly 32 bytes.
C4_OutputLengths ==
    /\ (pc = "keygen_full_done" /\ Len(kg.d) = 32 /\ Len(kg.z) = 32)
           => (Len(kg.ek) = 1184 /\ Len(kg.dk) = 2400)
    /\ (pc = "encaps_full_done" /\ Len(kg.d) = 32 /\ Len(kg.z) = 32
        /\ en.ek = kg.ek /\ Len(en.m) = 32)
           => (Len(en.K_val) = 32 /\ Len(en.c) = 1088)
    /\ (pc = "decaps_full_done" /\ Len(kg.d) = 32 /\ Len(kg.z) = 32
        /\ en.ek = kg.ek /\ Len(en.m) = 32
        /\ de.dk = kg.dk /\ Len(de.c) = 1088)
           => Len(de.result) = 32

\* All three functions have returned, with outputs of the fixed lengths.
C4_Witness ==
    /\ pc = "decaps_full_done"
    /\ Len(kg.d) = 32 /\ Len(kg.z) = 32 /\ Len(en.m) = 32
    /\ de.dk = kg.dk /\ de.c = en.c
    /\ Len(kg.ek) = 1184 /\ Len(kg.dk) = 2400
    /\ Len(en.K_val) = 32 /\ Len(en.c) = 1088
    /\ Len(de.result) = 32

(***************************************************************************)
(* Claims about the functions called on their own (SpecOps).               *)
(***************************************************************************)

\* C5: for every polynomial p of 256 coefficients in [0, q-1],
\* ntt_inverse(ntt_forward(p)) = p and ntt_forward(ntt_inverse(p)) = p,
\* the all-zero and the all-(q-1) polynomial included.
C5_NttMutualInverses ==
    (op = "ntt_round_trip" /\ IsCanonicalPoly(args[1]))
        => (res[1] = args[1] /\ res[2] = args[1])

\* The all-(q-1) polynomial made both round trips.
C5_Witness ==
    /\ op = "ntt_round_trip"
    /\ \A n \in 1..KYBER_N : args[1][n] = KYBER_Q - 1
    /\ res[1] = args[1] /\ res[2] = args[1]

\* C6: every coefficient returned by mod_add, mod_sub, barrett_reduce,
\* poly_add, poly_sub, basemul, poly_basemul, ntt_forward, ntt_inverse,
\* cbd_sample_eta2, decompress_q, sample_ntt and byte_decode(12, .) lies in
\* [0, q-1], for every input the operation accepts.
C6_CoefficientsCanonical ==
    /\ (op \in {"mod_add", "mod_sub"} /\ IsCanonical(args[1]) /\ IsCanonical(args[2]))
           => IsCanonical(res)
    /\ (op = "barrett_reduce" /\ 0 <= args[1] /\ args[1] < BARRETT_SAFE)
           => IsCanonical(res)
    /\ (op = "decompress_q" /\ args[2] \in ValidD
        /\ 0 <= args[1] /\ args[1] < Pow2(args[2]))
           => IsCanonical(res)
    /\ (op = "basemul" /\ \A n \in 1..5 : IsCanonical(args[n]))
           => (IsCanonical(res[1]) /\ IsCanonical(res[2]))
    /\ (op \in {"poly_add", "poly_sub", "poly_basemul"}
        /\ IsCanonicalPoly(args[1]) /\ IsCanonicalPoly(args[2]))
           => IsCanonicalPoly(res)
    /\ (op \in {"ntt_forward", "ntt_inverse"} /\ Len(args[1]) = KYBER_N)
           => IsCanonicalPoly(res)
    /\ (op = "cbd_sample_eta2" /\ Len(args[1]) = 128) => IsCanonicalPoly(res)
    /\ (op = "sample_ntt" /\ res # Raised) => IsCanonicalPoly(res)
    /\ (op = "byte_decode_12" /\ Len(args[1]) = 384) => IsCanonicalPoly(res)

\* byte_decode(12, .) met the 12-bit field 0xFFF and returned 4095 mod q.
C6_Witness ==
    /\ op = "byte_decode_12"
    /\ Len(args[1]) = 384
    /\ args[1][1] = 255 /\ args[1][2] = 255
    /\ res[1] = 766

\* C7: for 0 <= a < 77,517,490, with t = (a * 20158) >> 26 and
\* r = a - t * 3329, barrett_reduce has 0 <= r < 2q and returns
\* cond_sub_q(r) = a mod 3329; for a outside that range it fails.
C7_BarrettReduce ==
    op = "barrett_reduce" =>
        LET a == args[1]
            r == a - barrett_quotient(a) * 3329
        IN  IF 0 <= a /\ a < 77517490
            THEN /\ 0 <= r /\ r < 2 * 3329
                 /\ res = cond_sub_q(r)
                 /\ res = a % 3329
            ELSE res = AssertionError

\* The largest safe input, whose remainder needs the conditional subtraction.
C7_Witness ==
    /\ op = "barrett_reduce"
    /\ args[1] = 77517489
    /\ barrett_remainder(args[1]) >= KYBER_Q
    /\ res = 1724

\* C8: for a, b in [0, q-1], mod_sub(a, b) = (a - b) mod q, obtained by
\* cond_add_q on the 13-bit pattern of the unsigned subtraction, whose
\* bit 12 is set iff a < b; mod_sub fails when a or b is outside [0, q-1].
C8_ModSub ==
    op = "mod_sub" =>
        LET a == args[1]
            b == args[2]
            pattern == borrow_pattern(a, b)
        IN  IF 0 <= a /\ a <= 3328 /\ 0 <= b /\ b <= 3328
            THEN /\ res = (a - b) % 3329
                 /\ res = cond_add_q(pattern)
                 /\ 0 <= pattern /\ pattern < 8192
                 /\ ((pattern \div 4096) % 2 = 1) <=> (a < b)
            ELSE res = AssertionError

\* A subtraction that borrowed: 0 - 3328 = 1 mod q.
C8_Witness ==
    /\ op = "mod_sub"
    /\ args = << 0, 3328 >>
    /\ (borrow_pattern(0, 3328) \div 4096) % 2 = 1
    /\ res = 1

\* C9: for d in {1, 4, 5, 10, 11} and x in [0, q-1],
\* compress_q(x, d) = floor((x * 2^d + 1664) / 3329) mod 2^d, a value in
\* [0, 2^d - 1]; compress_q fails for any other d and for x outside [0, q-1].
\* The floor is stated by its defining inequality 3329 k <= x 2^d + 1664 <
\* 3329 (k + 1); k is at most 2^d, so k is res or res + 2^d.
C9_Compress ==
    op = "compress_q" =>
        LET v == args[1]
            d == args[2]
        IN  IF d \in {1, 4, 5, 10, 11} /\ 0 <= v /\ v <= 3328
            THEN /\ res = ((v * Pow2(d) + 1664) \div 3329) % Pow2(d)
                 /\ 0 <= res /\ res <= Pow2(d) - 1
                 /\ \E k \in {res, res + Pow2(d)} :
                        /\ 3329 * k <= v * Pow2(d) + 1664
                        /\ v * Pow2(d) + 1664 < 3329 * (k + 1)
            ELSE res = AssertionError

\* x = 3328 at d = 1 rounds to 2, which wraps to 0.
C9_Witness ==
    /\ op = "compress_q"
    /\ args = << 3328, 1 >>
    /\ res = 0

\* C10: for d in {1, 4, 5, 10, 11} and x in [0, q-1], the wrapped distance
\* min(|y - x|, q - |y - x|) between y = decompress_q(compress_q(x, d), d)
\* and x is at most ceil(q / 2^(d+1)).
C10_RoundTripError ==
    op = "round_trip" =>
        LET v == args[1]
            d == args[2]
            dist == IF res >= v THEN res - v ELSE v - res
            bound == (3329 + Pow2(d + 1) - 1) \div Pow2(d + 1)
        IN  /\ res # AssertionError
            /\ Min(dist, 3329 - dist) <= bound

\* The worst case at d = 1: x = 832 comes back as 0, at distance 832.
C10_Witness ==
    /\ op = "round_trip"
    /\ args = << 832, 1 >>
    /\ res = 0

(***************************************************************************)
(* C11.  For every width d of 1, 4, 5, 10, 11, 12 and every list of 256     *)
(* coefficients within the range of d (below 2^d, below q at d = 12),       *)
(* byte_encode(d, coeffs) has 32 * d bytes and byte_decode(d, .) of it is   *)
(* coeffs again; bit j of coefficient i is stream bit i * d + j, and        *)
(* stream bit n is bit n mod 8 of byte n div 8.                             *)
(***************************************************************************)
C11_ByteEncodeRoundTrip ==
    op = "byte_encode" =>
        LET d == args[1]
            coeffs == args[2]
            data == res[1]
            top == IF d = 12 THEN KYBER_Q ELSE Pow2(d)
        IN  (/\ d \in {1, 4, 5, 10, 11, 12}
             /\ Len(coeffs) = 256
             /\ \A i \in 1..256 : 0 <= coeffs[i] /\ coeffs[i] < top)
            => /\ Len(data) = 32 * d
               /\ \A b \in 1..Len(data) : data[b] \in 0..255
               /\ res[2] = coeffs
               /\ \A i \in 0..255, j \in 0..(d - 1) :
                      LET n == i * d + j
                      IN  (data[(n \div 8) + 1] \div Pow2(n % 8)) % 2
                          = (coeffs[i + 1] \div Pow2(j)) % 2

\* A pseudo-random list of 10-bit coefficients, not all equal, was encoded
\* to 320 bytes and decoded to itself.
C11_Witness ==
    /\ op = "byte_encode"
    /\ args[1] = 10
    /\ \A i \in 1..256 : args[2][i] \in 0..1023
    /\ \E i \in 1..256 : args[2][i] > 512 /\ args[2][i] % 2 = 0
    /\ Len(res[1]) = 320
    /\ res[2] = args[2]

(***************************************************************************)
(* C12.  For canonical polynomials a and b,                                 *)
(* ntt_inverse(poly_basemul(ntt_forward(a), ntt_forward(b))) is             *)
(* schoolbook_mul(a, b), the product modulo X^256 + 1 and q; and            *)
(* poly_basemul(x, ntt_forward([1, 0, ..., 0])) is x for canonical x.       *)
(***************************************************************************)
C12_NttMultiplyIsSchoolbook ==
    (op = "ntt_multiply" /\ IsCanonicalPoly(args[1]) /\ IsCanonicalPoly(args[2]))
        => /\ IsCanonicalPoly(res[1])
           /\ res[1] = res[2]
           /\ res[3] = args[1]

\* Two pseudo-random polynomials were multiplied both ways; coefficient 0
\* of the product is a[0] * b[0] minus the 255 wrapped products
\* a[i] * b[256 - i], and it is not zero.
C12_Witness ==
    /\ op = "ntt_multiply"
    /\ args[1] = TestPoly(3) /\ args[2] = TestPoly(4)
    /\ res[1] = res[2]
    /\ res[1][1] # 0
    /\ \E n \in 1..KYBER_N : res[1][n] # args[1][n]
    /\ res[3] = args[1]

(***************************************************************************)
(* C13.  For canonical polynomials a and b, ntt_forward of the              *)
(* coefficient-wise sum (a[i] + b[i]) mod q is the coefficient-wise sum     *)
(* mod q of ntt_forward(a) and ntt_forward(b).                              *)
(***************************************************************************)
C13_NttForwardLinear ==
    (op = "ntt_linearity" /\ IsCanonicalPoly(args[1]) /\ IsCanonicalPoly(args[2]))
        => /\ IsCanonicalPoly(res[1])
           /\ \A n \in 1..KYBER_N : res[1][n] = (res[3][n] + res[4][n]) % KYBER_Q
           /\ res[1] = res[2]

\* Two different pseudo-random polynomials whose sum wraps past q in some
\* coefficient, and whose transforms wrap in some coefficient too.
C13_Witness ==
    /\ op = "ntt_linearity"
    /\ args[1] = TestPoly(3) /\ args[2] = TestPoly(5)
    /\ \E n \in 1..KYBER_N : args[1][n] + args[2][n] >= KYBER_Q
    /\ \E n \in 1..KYBER_N : res[3][n] + res[4][n] >= KYBER_Q
    /\ res[1] = res[2]
    /\ res[1] # res[3]

(***************************************************************************)
(* C14.  ZETAS has 128 entries and ZETAS[k] is 17^bitrev7(k) mod 3329 for   *)
(* every k in 0..127, where bitrev7 reverses the low 7 bits and is its own  *)
(* inverse on 0..127; ZETAS[0] = 1, ZETAS[1] = 1729, bitrev7(1) = 64, and   *)
(* 128 * 3303 mod 3329 = 1.                                                 *)
(***************************************************************************)
C14_ZetasTable ==
    op = "ZETAS" =>
        LET k == args[1]
            r == res[2]
        IN  /\ res[4] = 128
            /\ k \in 0..127
            /\ r \in 0..127
            /\ \A b \in 0..6 : (r \div Pow2(b)) % 2 = (k \div Pow2(6 - b)) % 2
            /\ res[3] = k
            /\ res[1] = pow_mod(17, r, 3329)
            /\ k = 0 => res[1] = 1
            /\ k = 1 => (res[1] = 1729 /\ r = 64)
            /\ (128 * KYBER_N_INV) % KYBER_Q = 1
            /\ KYBER_N_INV = 3303 /\ KYBER_Q = 3329 /\ ZETA = 17

\* The entry ZETAS[1] = 17^64 = 1729 was read.
C14_Witness ==
    /\ op = "ZETAS"
    /\ args[1] = 1
    /\ res = << 1729, 64, 1, 128 >>

(***************************************************************************)
(* C15.  k_pke_encrypt, given the ek that k_pke_keygen(d) returned,         *)
(* rebuilds the matrix A_hat and the vector t_hat that key generation       *)
(* used; key generation computed t_hat[i] from the entries A_hat[i][j],     *)
(* j = 0..2 (row i), and encryption computes u[i] from the entries          *)
(* A_hat[j][i], j = 0..2 (column i), of that same matrix.                   *)
(***************************************************************************)
C15_SameMatrix ==
    op = "k_pke_keygen_encrypt" =>
        LET A == res[1].A_hat
            s_hat == res[1].s_hat
            e == res[1].e
            y == res[2].y
            e1 == res[2].e1
        IN  /\ res[2].A_hat = A
            /\ res[2].t_hat = res[1].t_hat
            /\ \A i \in 1..3 :
                   res[1].t_hat[i]
                   = poly_add(poly_add(poly_add(poly_basemul(A[i][1], s_hat[1]),
                                                poly_basemul(A[i][2], s_hat[2])),
                                       poly_basemul(A[i][3], s_hat[3])),
                              ntt_forward(e[i]))
            /\ \A i \in 1..3 :
                   res[2].u[i]
                   = poly_add(ntt_inverse(
                                  poly_add(poly_add(poly_basemul(A[1][i], ntt_forward(y[1])),
                                                    poly_basemul(A[2][i], ntt_forward(y[2]))),
                                           poly_basemul(A[3][i], ntt_forward(y[3])))),
                              e1[i])

\* A key was generated and used to encrypt; the matrix is not symmetric, so
\* rows and columns differ, and neither call raised.
C15_Witness ==
    /\ op = "k_pke_keygen_encrypt"
    /\ res[1].A_hat[1][2] # res[1].A_hat[2][1]
    /\ res[1].A_hat[1] # column(res[1].A_hat, 1)
    /\ Len(res[1].ek_pke) = EK_LEN
    /\ res[2].A_hat = res[1].A_hat
    /\ \A i \in 1..3 : IsCanonicalPoly(res[2].u[i]) /\ IsCanonicalPoly(res[1].t_hat[i])
    /\ Len(res[2].c1) = 32 * DU * K

(***************************************************************************)
(* C16.  For every rho and all i, j in 0..2, expand_a(rho)[i][j] is         *)
(* sample_ntt(rho, j, i), whose XOF seed is rho, then the byte j (the       *)
(* column index), then the byte i (the row index); the entry is stored at   *)
(* row i, column j.                                                         *)
(***************************************************************************)
C16_ExpandAOrder ==
    op = "expand_a" =>
        /\ Len(res) = 3
        /\ \A i \in 0..2 :
               /\ Len(res[i + 1]) = 3
               /\ \A j \in 0..2 :
                      /\ res[i + 1][j + 1] = sample_ntt(args[1], j, i)
                      /\ res[i + 1][j + 1]
                         = sample_ntt_while(
                               shake_128(args[1] \o << j >> \o << i >>, 4096), << >>, 0)

\* A matrix was expanded whose entry at row 0, column 1 (seed rho, 1, 0)
\* differs from the entry at row 1, column 0 (seed rho, 0, 1).
C16_Witness ==
    /\ op = "expand_a"
    /\ res[1][2] = sample_ntt(args[1], 1, 0)
    /\ res[2][1] = sample_ntt(args[1], 0, 1)
    /\ res[1][2] # res[2][1]
    /\ \A i \in 1..3, j \in 1..3 : IsCanonicalPoly(res[i][j])

(***************************************************************************)
(* C17.  As claimed: PRF and XOF are built from the same extendable-output  *)
(* hash (the rate-168 family) and J from the other, so that                 *)
(* prf(eta, seed, nonce) = xof(seed || nonce-byte, 64 * eta) for every      *)
(* seed and nonce.  The code does otherwise.                                *)
(***************************************************************************)
C17_PrfIsXof ==
    op = "prf" => res[1] = res[2]

(***************************************************************************)
(* C17, as the code has it.  PRF and J are built from the same              *)
(* extendable-output hash, SHAKE-256 (the rate-136 family), and XOF from    *)
(* the other, SHAKE-128 (the rate-168 family): prf(eta, seed, nonce) has    *)
(* 64 * eta bytes and is j_hash(seed || nonce-byte, 64 * eta), whose first  *)
(* 32 bytes are j_hash(seed || nonce-byte).                                 *)
(***************************************************************************)
C17_PrfIsJ ==
    op = "prf" =>
        /\ Len(res[1]) = 64 * args[1]
        /\ res[1] = res[3]
        /\ res[1] = shake_256(args[2] \o << args[3] >>, 64 * args[1])
        /\ SubSeq(res[1], 1, 32) = j_hash(args[2] \o << args[3] >>)

\* prf was called with eta = 2 and nonce 6 and returned the 128 bytes of
\* j_hash, which are not those of xof.
C17_Witness ==
    /\ op = "prf"
    /\ args[1] = 2 /\ args[3] = 6
    /\ Len(res[1]) = 128
    /\ res[1] = res[3]
    /\ res[1] # res[2]

(***************************************************************************)
(* C18.  As claimed: cbd_sample_eta2 maps 128 bytes 0x00 to 256 zero        *)
(* coefficients, 128 bytes 0xFF to 256 zero coefficients, and 128 bytes     *)
(* 0x03 to 256 coefficients every one of which is 2.  The last part is not  *)
(* what the code returns.                                                   *)
(***************************************************************************)
C18_KnownVectors ==
    (op = "cbd_sample_eta2" /\ Len(args[1]) = 128) =>
        /\ (\A n \in 1..128 : args[1][n] = 0)
               => (Len(res) = 256 /\ \A n \in 1..256 : res[n] = 0)
        /\ (\A n \in 1..128 : args[1][n] = 255)
               => (Len(res) = 256 /\ \A n \in 1..256 : res[n] = 0)
        /\ (\A n \in 1..128 : args[1][n] = 3)
               => (Len(res) = 256 /\ \A n \in 1..256 : res[n] = 2)

(***************************************************************************)
(* C18, as the code has it.  128 bytes 0x00 and 128 bytes 0xFF give 256     *)
(* zero coefficients; 128 bytes 0x03 give 256 coefficients of which those   *)
(* at even index 0, 2, ..., 254 (the low nibbles, 0x3) are 2 and those at   *)
(* odd index (the high nibbles, 0x0) are 0.                                 *)
(***************************************************************************)
C18_KnownVectorsByNibble ==
    (op = "cbd_sample_eta2" /\ Len(args[1]) = 128) =>
        /\ (\A n \in 1..128 : args[1][n] = 0)
               => (Len(res) = 256 /\ \A n \in 1..256 : res[n] = 0)
        /\ (\A n \in 1..128 : args[1][n] = 255)
               => (Len(res) = 256 /\ \A n \in 1..256 : res[n] = 0)
        /\ (\A n \in 1..128 : args[1][n] = 3)
               => /\ Len(res) = 256
                  /\ \A k \in 0..127 : res[2 * k + 1] = 2 /\ res[2 * k + 2] = 0

\* The sampler was run on 128 bytes 0x03 and returned 2, 0, 2, 0, ...
C18_Witness ==
    /\ op = "cbd_sample_eta2"
    /\ Len(args[1]) = 128
    /\ \A n \in 1..128 : args[1][n] = 3
    /\ Len(res) = 256
    /\ res[1] = 2 /\ res[2] = 0 /\ res[255] = 2 /\ res[256] = 0

(***************************************************************************)
(* C20.  byte_encode(d, coeffs) fails with an error whenever some           *)
(* coefficient lies outside [0, 2^d - 1]; it never returns bytes in which   *)
(* the high bits of a coefficient were dropped.  The code has no such       *)
(* check: it packs the low d bits of every coefficient.                     *)
(***************************************************************************)
C20_OutOfRangeFails ==
    (/\ op = "byte_encode"
     /\ Len(args[2]) = 256
     /\ \E n \in 1..256 : ~(0 <= args[2][n] /\ args[2][n] < Pow2(args[1])))
        => res[1] = Raised

C22_Candidates(buf) ==
    Force([m \in 1..(2 * (Len(buf) \div 3)) |->
              IF m % 2 = 1
              THEN buf[3 * ((m - 1) \div 2) + 1]
                   + 256 * (buf[3 * ((m - 1) \div 2) + 2] % 16)
              ELSE (buf[3 * ((m - 1) \div 2) + 2] \div 16)
                   + 16 * buf[3 * ((m - 1) \div 2) + 3]])

C22_Below_q(v) == v < 3329

\* The XOF output the call in this state read.
C22_Stream ==
    IF op = "sample_ntt"
    THEN Force(xof(args[1] \o << args[2], args[3] >>, XOF_BUF_LEN))
    ELSE args[1]

(***************************************************************************)
(* C22.  The output of sample_ntt is exactly the first 256 candidates       *)
(* d1 = b0 + 256*(b1 mod 16), d2 = floor(b1/16) + 16*b2 that are < 3329, in *)
(* stream order with d1 before d2 within a group, a d2 that follows the     *)
(* 256th accepted value being discarded: the output length is exactly 256.  *)
(***************************************************************************)
C22_FirstAccepted ==
    op \in {"sample_ntt", "sample_ntt_while"} =>
        \A acc \in {SelectSeq(C22_Candidates(C22_Stream), C22_Below_q)} :
            Len(acc) >= 256 =>
                /\ Len(res) = 256
                /\ res = SubSeq(acc, 1, 256)

\* A call of sample_ntt on SHAKE-128 output whose 256th accepted value is
\* the d1 of a group whose d2 is below q as well: that d2 is left out.
C22_Witness ==
    /\ op = "sample_ntt"
    /\ res # Raised
    /\ \E cand \in {C22_Candidates(C22_Stream)} :
           \E g \in 128..200 :
               /\ cand[2 * g + 1] < 3329
               /\ cand[2 * g + 2] < 3329
               /\ Len(SelectSeq(SubSeq(cand, 1, 2 * g + 1), C22_Below_q)) = 256
               /\ res[256] = cand[2 * g + 1]
               /\ Len(res) = 256


\* The list ntt_inverse holds after its seven layers, before lines 437-438.
C23_Unscaled(coeffs) ==
    ntt_inverse_layers(Force([n \in 1..256 |-> coeffs[n] % 3329]), 127, 2)

(***************************************************************************)
(* C23.  ntt_forward runs 7 layers with block length 128, 64, ..., 2 and    *)
(* reads one twiddle per butterfly block at the indices 1, 2, ..., 127 in   *)
(* ascending order, each exactly once; ntt_inverse runs 7 layers with block *)
(* length 2, 4, ..., 128 and reads the indices 127, 126, ..., 1 in          *)
(* descending order, each exactly once, and only after the last layer       *)
(* multiplies every coefficient by 3303; neither transform reads ZETAS[0].  *)
(***************************************************************************)
C23_TwiddleOrder ==
    thread # << >> =>
        \A t \in Threads :
            \A fr \in {thread[t]} :
                /\ \A m \in 1..Len(fr.reads) : fr.reads[m] # 0
                /\ fr.fn = "ntt_forward" =>
                       /\ fr.lengths
                          = SubSeq(<< 128, 64, 32, 16, 8, 4, 2 >>, 1, Len(fr.lengths))
                       /\ fr.reads = [m \in 1..Len(fr.reads) |-> m]
                       /\ fr.pc = "layer" =>
                              Len(fr.reads) = (256 \div (2 * fr.length)) - 1
                       /\ fr.scaled = 0
                       /\ fr.pc \in {"return", "done"} =>
                              /\ Len(fr.lengths) = 7
                              /\ fr.reads = [m \in 1..127 |-> m]
                /\ fr.fn = "ntt_inverse" =>
                       /\ fr.lengths
                          = SubSeq(<< 2, 4, 8, 16, 32, 64, 128 >>, 1, Len(fr.lengths))
                       /\ fr.reads = [m \in 1..Len(fr.reads) |-> 128 - m]
                       /\ fr.pc \in {"entry", "layer"} => fr.scaled = 0
                       /\ fr.pc \in {"scale", "return", "done"} =>
                              /\ Len(fr.lengths) = 7
                              /\ fr.reads = [m \in 1..127 |-> 128 - m]
                       /\ fr.pc = "scale" =>
                              /\ fr.scaled = 0
                              /\ heap[fr.f] = C23_Unscaled(SharedLists[fr.coeffs])
                       /\ fr.pc \in {"return", "done"} =>
                              /\ fr.scaled = 1
                              /\ \A u \in {C23_Unscaled(SharedLists[fr.coeffs])} :
                                     heap[fr.f] = [n \in 1..256 |-> (u[n] * 3303) % 3329]

\* Thread 1 has returned from ntt_forward with its 127 reads made and
\* thread 2 from ntt_inverse, scaled once after its seventh layer.
C23_Witness ==
    /\ thread # << >>
    /\ thread[1].pc = "done" /\ thread[1].fn = "ntt_forward"
    /\ Len(thread[1].reads) = 127 /\ thread[1].reads[127] = 127
    /\ thread[1].lengths = << 128, 64, 32, 16, 8, 4, 2 >>
    /\ thread[2].pc = "done" /\ thread[2].fn = "ntt_inverse"
    /\ Len(thread[2].reads) = 127 /\ thread[2].reads[1] = 127 /\ thread[2].reads[127] = 1
    /\ thread[2].lengths = << 2, 4, 8, 16, 32, 64, 128 >>
    /\ thread[2].scaled = 1


\* The product (a0 + a1 X)(b0 + b1 X) mod (X^2 - z) over Z_q:
\* ((a0*b0 + a1*b1*z) mod q, (a0*b1 + a1*b0) mod q).  a1*b1 is taken mod q
\* before it is multiplied by z, which leaves the residue unchanged and
\* keeps the product within the integers of the checker.
C24_Product(a0, a1, b0, b1, z) ==
    << (a0 * b0 + ((a1 * b1) % 3329) * z) % 3329, (a0 * b1 + a1 * b0) % 3329 >>

(***************************************************************************)
(* C24.  For canonical a and b, poly_basemul computes for each i in 0..63   *)
(* (r[4i], r[4i+1]) = basemul(a[4i], a[4i+1], b[4i], b[4i+1], ZETAS[64+i])  *)
(* and (r[4i+2], r[4i+3]) = basemul(a[4i+2], a[4i+3], b[4i+2], b[4i+3],     *)
(* 3329 - ZETAS[64+i]), where basemul(a0, a1, b0, b1, z) is                 *)
(* ((a0*b0 + a1*b1*z) mod q, (a0*b1 + a1*b0) mod q) for every canonical     *)
(* quintuple.                                                               *)
(***************************************************************************)
C24_PolyBasemul ==
    /\ (op = "basemul" /\ \A n \in 1..5 : IsCanonical(args[n])) =>
           res = C24_Product(args[1], args[2], args[3], args[4], args[5])
    /\ (op = "poly_basemul" /\ IsCanonicalPoly(args[1]) /\ IsCanonicalPoly(args[2])) =>
           \A a \in {args[1]}, b \in {args[2]} :
               \A i \in 0..63 :
                   /\ << res[4 * i + 1], res[4 * i + 2] >>
                      = C24_Product(a[4 * i + 1], a[4 * i + 2],
                                    b[4 * i + 1], b[4 * i + 2], ZETAS(64 + i))
                   /\ << res[4 * i + 3], res[4 * i + 4] >>
                      = C24_Product(a[4 * i + 3], a[4 * i + 4],
                                    b[4 * i + 3], b[4 * i + 4], 3329 - ZETAS(64 + i))

\* poly_basemul of two pseudo-random canonical polynomials, where the sign
\* of the twiddle of the second pair of group 0 shows in the result.
C24_Witness ==
    /\ op = "poly_basemul"
    /\ args = << TestPoly(3), TestPoly(4) >>
    /\ res # Raised
    /\ << res[3], res[4] >>
       # C24_Product(args[1][3], args[1][4], args[2][3], args[2][4], ZETAS(64))
    /\ << res[3], res[4] >>
       = C24_Product(args[1][3], args[1][4], args[2][3], args[2][4], 3329 - ZETAS(64))


\* Bit number j (0 the lowest) of the byte v.
C25_Bit(v, j) == (v \div (2 ^ j)) % 2

(***************************************************************************)
(* C25.  cbd_sample_eta2 accepts only inputs of exactly 128 bytes, any      *)
(* other length failing, and returns 256 coefficients in which byte k       *)
(* yields coefficient 2k from its low nibble and coefficient 2k+1 from its  *)
(* high nibble, each equal to ((b0 + b1) - (b2 + b3)) mod q for the nibble  *)
(* bits b0..b3, hence always one of 0, 1, 2, q-2, q-1.                      *)
(***************************************************************************)
C25_CbdByNibble ==
    op = "cbd_sample_eta2" =>
        IF Len(args[1]) # 128
        THEN res = Raised
        ELSE /\ Len(res) = 256
             /\ \A k \in 0..127 :
                    \A v \in {args[1][k + 1]} :
                        /\ res[2 * k + 1]
                           = ((C25_Bit(v, 0) + C25_Bit(v, 1))
                              - (C25_Bit(v, 2) + C25_Bit(v, 3))) % 3329
                        /\ res[2 * k + 2]
                           = ((C25_Bit(v, 4) + C25_Bit(v, 5))
                              - (C25_Bit(v, 6) + C25_Bit(v, 7))) % 3329
             /\ \A n \in 1..256 : res[n] \in {0, 1, 2, 3327, 3328}

\* The sampler has run on 128 pseudo-random bytes and returned all five
\* values, with a byte whose two nibbles give different coefficients.
C25_Witness ==
    /\ op = "cbd_sample_eta2"
    /\ Len(args[1]) = 128
    /\ Len(res) = 256
    /\ {res[n] : n \in 1..256} = {0, 1, 2, 3327, 3328}
    /\ \E k \in 0..127 : res[2 * k + 1] = 3327 /\ res[2 * k + 2] = 1


\* CBD of the 128 bytes SHAKE-256(seed || nonce) starts with.
C26_Noise(seed, nonce) == cbd_sample_eta2(shake_256(seed \o << nonce >>, 128))

(***************************************************************************)
(* C26.  Within one call the PRF nonces are fixed by position and pairwise  *)
(* distinct: k_pke_keygen derives s[i] from nonce i and e[i] from nonce     *)
(* 3 + i (i = 0..2) under sigma; k_pke_encrypt derives y[i] from nonce i,   *)
(* e1[i] from nonce 3 + i (i = 0..2) and e2 from nonce 6 under r_seed;      *)
(* every PRF output is 128 bytes, the length cbd_sample_eta2 requires.      *)
(***************************************************************************)
C26_NoncesByPosition ==
    /\ op = "k_pke_keygen_encrypt" =>
           \A kf \in {res[1]}, ef \in {res[2]}, r_seed \in {args[3]} :
               /\ \A i \in 0..2 :
                      /\ kf.s[i + 1] = C26_Noise(kf.sigma, i)
                      /\ kf.e[i + 1] = C26_Noise(kf.sigma, 3 + i)
                      /\ ef.y[i + 1] = C26_Noise(r_seed, i)
                      /\ ef.e1[i + 1] = C26_Noise(r_seed, 3 + i)
               /\ ef.e2 = C26_Noise(r_seed, 6)
               /\ \A nonce \in 0..6 :
                      /\ Len(prf(ETA1, kf.sigma, nonce)) = 128
                      /\ Len(prf(ETA2, r_seed, nonce)) = 128
               /\ \A poly \in {kf.s[1], kf.s[2], kf.s[3], kf.e[1], kf.e[2], kf.e[3],
                               ef.y[1], ef.y[2], ef.y[3], ef.e1[1], ef.e1[2], ef.e1[3],
                               ef.e2} :
                      poly # Raised /\ Len(poly) = 256
    /\ (op = "prf" /\ args[1] \in {ETA1, ETA2}) =>
           /\ Len(res[1]) = 128
           /\ cbd_sample_eta2(res[1]) # Raised

\* Both calls have run and the noise polynomials of each are pairwise
\* different, so each of them identifies the nonce it was derived from.
C26_Witness ==
    /\ op = "k_pke_keygen_encrypt"
    /\ Cardinality({res[1].s[1], res[1].s[2], res[1].s[3],
                    res[1].e[1], res[1].e[2], res[1].e[3]}) = 6
    /\ Cardinality({res[2].y[1], res[2].y[2], res[2].y[3],
                    res[2].e1[1], res[2].e1[2], res[2].e1[3], res[2].e2}) = 7
    /\ res[1].e[1] = C26_Noise(res[1].sigma, 3)
    /\ res[2].e2 = C26_Noise(args[3], 6)
    /\ res[2].e2 # C26_Noise(args[3], 0)


\* One step of the session, seen from decaps_full: when line 333 is reached
\* K-bar and c' hold their values, and the step from line 333 returns one of
\* the two values already in the frame and changes nothing else.
C27_Step ==
    /\ pc' = "decaps_full_333" =>
           /\ de'.K_bar = shake_256(de'.z \o de'.c, 32)
           /\ de'.c_prime # << >>
           /\ de'.c_prime = k_pke_encrypt(de'.ek, de'.m_prime, de'.r_prime)
           /\ de'.result = << >>
    /\ pc = "decaps_full_333" =>
           /\ pc' = "decaps_full_done"
           /\ de' = [de EXCEPT !.result = IF de.c = de.c_prime THEN de.K_prime
                                          ELSE de.K_bar]

(***************************************************************************)
(* C27.  In every execution of decaps_full the rejection value              *)
(* K-bar = J(z || c) and the re-encryption c' are both computed before the  *)
(* comparison c == c', whichever way it turns out, and neither branch       *)
(* computes anything after it: the two outcomes differ only in which of the *)
(* values already computed is returned.                                     *)
(***************************************************************************)
C27_BothBeforeComparison == [][C27_Step]_vars

\* decaps_full stands at the comparison of line 333 with a ciphertext the
\* re-encryption does not reproduce; K-bar and c' are in the frame and
\* nothing has been returned yet.
C27_Witness ==
    /\ pc = "decaps_full_333"
    /\ Len(de.K_bar) = 32
    /\ Len(de.c_prime) = 1088
    /\ Len(de.K_prime) = 32
    /\ de.c # de.c_prime
    /\ de.K_bar # de.K_prime
    /\ de.result = << >>


\* Every list ntt_forward holds after a layer, from the list f it holds on
\* entry to the layer of block length `length`, is canonical.
RECURSIVE C28_ForwardInRange(_, _, _)
C28_ForwardInRange(f, k, length) ==
    IF length < 2 THEN TRUE
    ELSE \A g \in {ntt_forward_layer(ZETAS_list, f, k, length)} :
             /\ IsCanonicalPoly(g)
             /\ C28_ForwardInRange(g, k + (256 \div (2 * length)), length \div 2)

\* The same for the layers of ntt_inverse and its scaling loop.
RECURSIVE C28_InverseInRange(_, _, _)
C28_InverseInRange(f, k, length) ==
    IF length > 128 THEN IsCanonicalPoly(ntt_inverse_scale(f))
    ELSE \A g \in {ntt_inverse_layer(ZETAS_list, f, k, length)} :
             /\ IsCanonicalPoly(g)
             /\ C28_InverseInRange(g, k - (256 \div (2 * length)), length * 2)

(***************************************************************************)
(* C28.  For any input list of 256 non-negative integers to ntt_forward or  *)
(* ntt_inverse, and any two canonical polynomials given to poly_basemul, no *)
(* range assertion of barrett_reduce, cond_sub_q, cond_add_q, mod_add or    *)
(* mod_sub is violated during the call: every intermediate coefficient      *)
(* stays in [0, q-1], every value passed to barrett_reduce is at most       *)
(* 2*3328^2 < 77,517,490, and 3329 - ZETAS[64+i] is in [1, q-1] because no  *)
(* table entry is 0.                                                        *)
(***************************************************************************)
C28_NoAssertionFails ==
    /\ (op \in {"ntt_forward", "ntt_inverse"} /\ Len(args[1]) = 256
        /\ \A n \in 1..256 : args[1][n] >= 0) =>
           /\ res # Raised
           /\ IsCanonicalPoly(res)
           /\ \A f \in {Force([n \in 1..256 |-> args[1][n] % 3329])} :
                  /\ IsCanonicalPoly(f)
                  /\ IF op = "ntt_forward" THEN C28_ForwardInRange(f, 1, 128)
                     ELSE C28_InverseInRange(f, 127, 2)
    /\ (op = "poly_basemul" /\ IsCanonicalPoly(args[1]) /\ IsCanonicalPoly(args[2])) =>
           /\ res # Raised
           /\ IsCanonicalPoly(res)
    /\ (op = "basemul" /\ \A n \in 1..5 : IsCanonical(args[n])) =>
           /\ res[1] # AssertionError /\ res[2] # AssertionError
           /\ args[2] * args[4] <= 2 * 3328 * 3328
           /\ args[1] * args[3] + ((args[2] * args[4]) % 3329) * args[5]
              <= 2 * 3328 * 3328
           /\ args[1] * args[4] + args[2] * args[3] <= 2 * 3328 * 3328
    /\ op = "ZETAS" =>
           /\ res[1] # 0
           /\ IsCanonical(res[1])
           /\ 3329 - res[1] >= 1 /\ 3329 - res[1] <= 3328
           /\ res[1] * 3328 <= 2 * 3328 * 3328
           /\ 2 * 3328 * 3328 < 77517490

\* ntt_inverse has run on 256 sixteen-bit values, some of them above q, and
\* returned a canonical list.
C28_Witness ==
    /\ op = "ntt_inverse"
    /\ Len(args[1]) = 256
    /\ \E n \in 1..256 : args[1][n] > 2 * 3329
    /\ \A n \in 1..256 : args[1][n] >= 0
    /\ res # Raised
    /\ IsCanonicalPoly(res)
    /\ \E n \in 1..256 : res[n] > 3000


(***************************************************************************)
(* C29.  For each d in {1, 4, 5, 10, 11} and every y in [0, 2^d - 1],       *)
(* compress_q(decompress_q(y, d), d) = y; in particular a message bit       *)
(* survives decompress-then-compress at d = 1.                              *)
(***************************************************************************)
C29_DecompressCompress ==
    (op = "compress_decompressed" /\ args[2] \in {1, 4, 5, 10, 11}
     /\ args[1] >= 0 /\ args[1] <= 2 ^ args[2] - 1) =>
        res[1] = args[1]

\* The message bit 1 was decompressed to 1665 and compressed back to 1.
C29_Witness ==
    /\ op = "compress_decompressed"
    /\ args = << 1, 1 >>
    /\ res = << 1, 1665 >>


(***************************************************************************)
(* C30.  The polynomial-level building blocks compute the same values as    *)
(* the byte-level K-PKE algorithms: for the same matrix, noise and message  *)
(* polynomials, keygen_inner returns the (t-hat, s-hat) that k_pke_keygen   *)
(* encodes, encaps_inner returns the (u, v) that k_pke_encrypt compresses   *)
(* and encodes, and decrypt_inner returns the 256 message bits that         *)
(* k_pke_decrypt packs into its 32-byte result.                             *)
(***************************************************************************)
C30_InnerMatchesBytes ==
    op = "inner" =>
        /\ res.keygen_inner = << res.kf.t_hat, res.kf.s_hat >>
        /\ res.kf.ek_pke
           = byte_encode(12, res.keygen_inner[1][1])
             \o byte_encode(12, res.keygen_inner[1][2])
             \o byte_encode(12, res.keygen_inner[1][3]) \o res.kf.rho
        /\ res.kf.dk_pke
           = byte_encode(12, res.keygen_inner[2][1])
             \o byte_encode(12, res.keygen_inner[2][2])
             \o byte_encode(12, res.keygen_inner[2][3])
        /\ res.encaps_inner = << res.ef.u, res.ef.v >>
        /\ res.ef.c1
           = byte_encode(10, compress_poly(res.encaps_inner[1][1], 10))
             \o byte_encode(10, compress_poly(res.encaps_inner[1][2], 10))
             \o byte_encode(10, compress_poly(res.encaps_inner[1][3], 10))
        /\ res.ef.c2 = byte_encode(4, compress_poly(res.encaps_inner[2], 4))
        /\ Len(res.decrypt_inner) = 256
        /\ \A n \in 1..256 : res.decrypt_inner[n] \in {0, 1}
        /\ Len(res.k_pke_decrypt) = 32
        /\ res.k_pke_decrypt = byte_encode(1, res.decrypt_inner)

\* The three functions have run on the polynomials of a byte-level run whose
\* decryption returned the message, which holds bits of both values.
C30_Witness ==
    /\ op = "inner"
    /\ res.k_pke_decrypt = args[2]
    /\ res.decrypt_inner # Raised
    /\ \E n \in 1..256 : res.decrypt_inner[n] = 1
    /\ \E n \in 1..256 : res.decrypt_inner[n] = 0
    /\ res.keygen_inner[1] = res.kf.t_hat
    /\ res.encaps_inner[2] = res.ef.v

=============================================================================
